---- MODULE Spec2Model ----
(***************************************************************************)
(* Ban reconciliation over the player store, as implemented by the drafts  *)
(* of the SanctionBan backend.  The repository holds several near-duplicate*)
(* servers; `draft` selects the one that is deployed and never changes.    *)
(*                                                                         *)
(*   part_002  local ban/unban, banReason only                             *)
(*   part_004  timed bans, lazy expiry, track = findOne + save             *)
(*   part_006  timed bans, lazy expiry, track = findOneAndUpdate(upsert)   *)
(*   part_005  "time machine": $or filters, no unique index, snapshots     *)
(*   server.js the same player, snapshot and restore routes without the    *)
(*             snapshot delete (server.js:1-184), hourly snapshots on a    *)
(*             schedule that is never stopped, snapshots without a name    *)
(*   part_003  external sanctions, no admin check                          *)
(*   part_007  external sanctions, trimmed identity (part_007:1-167)       *)
(*   part_007_diagnostic  external sanctions, no cache (part_007:288-442)  *)
(*   part_007_lockdown    admin routes refused, hourly snapshots, the 30   *)
(*             newest kept (part_007:169-286)                              *)
(*   server.js_simple  external sanctions, trimmed identity, no token      *)
(*             cache, failures answered 500 (server.js:186-348)            *)
(*   server.js_hex     external sanctions, identity stripped to its        *)
(*             hexadecimal digits (server.js:350-527)                      *)
(*   server.js_update  external sanctions, no admin check, the local write *)
(*             without upsert, track = findOne + create (server.js:529-651)*)
(*   bot.js    Discord bot, backup every minute, runBackup rethrows and is *)
(*             exported as forceTestMessage                                *)
(*   part_000  Discord bot, backup every minute, runBackup logs            *)
(*                                                                         *)
(* Every awaited database or network call is one atomic step: the call    *)
(* lands and the handler runs on to its next await.  A handler that awaits *)
(* more than once occupies a slot of `req` between its steps, so that      *)
(* other handlers and the clock interleave exactly at the awaits.  What a  *)
(* handler reads from the clock before an await (the timestamp of a        *)
(* snapshot, the cutoff of the pruning, firstSeen) is kept in its slot and *)
(* is what the awaited call writes or compares when it lands.  A restart   *)
(* of the process empties the slots and the scheduler; the database stays. *)
(* Time is counted in minutes.  A durationMinutes input d is carried as    *)
(* the integer 2*d (half minutes), so that fractional durations exist.     *)
(***************************************************************************)
EXTENDS Integers, Sequences, FiniteSets, TLC

VARIABLES
    draft,      \* which draft of the server is running
    now,        \* wall clock, in minutes
    players,    \* the Player collection: a set of documents
    backups,    \* the Backup collection: a set of snapshots
    req,        \* handlers suspended at an await, by slot
    resp,       \* the HTTP response produced by the last step (or none)
    hit,        \* the bans the last step lifted: by which route, which records
    tokenCache, \* the cached access token of the sanctions drafts
    sanctions,  \* sanctions the external authority has accepted
    env,        \* process.env: the configured ADMIN_PASSWORD
    cron        \* the snapshot scheduler: its tasks, callbacks due, error log

vars == <<draft, now, players, backups, req, resp, hit, tokenCache, sanctions,
          env, cron>>

----------------------------------------------------------------------------
(* Bounds of the model *)

MaxClock == 1
MaxDocs == 2
MaxInFlight == 2
MaxBans == 2
MaxBackups == 1
MaxCronRuns == 32
MaxSchedules == 2
MaxIntervals == 2
MaxErrors == 1
MaxDays == 2
MaxLate == 1

----------------------------------------------------------------------------
(* Values *)

\* JavaScript's undefined / a field that is not there.
Absent == "<absent>"
\* A Date field holding null is the empty tuple, a date t is <<t>>.
NULL == << >>

BanDrafts == {"part_002", "part_004", "part_005", "part_006"}
ExpiryDrafts == {"part_004", "part_006"}
UniqueIndexDrafts == {"part_002", "part_004", "part_006"}
\* The drafts with the snapshot routes and the time-based retention; their
\* admin routes filter by $or.
SnapshotDrafts == {"part_005", "server.js"}
\* The drafts whose track route filters by $or and has no unique index.
OrDrafts == {"part_005", "server.js", "part_007_lockdown"}
\* The drafts that mirror bans to the external sanctions authority: part_003,
\* part_007 lines 1-167, and the diagnostic draft of part_007 lines 288-442.
SanctionDrafts == {"part_003", "part_007", "part_007_diagnostic"}
\* The sanctions drafts of server.js: lines 186-348, lines 350-527 and lines
\* 529-651.
ServerDrafts == {"server.js_simple", "server.js_hex", "server.js_update"}
\* Every draft with the sanction routes.
MirrorDrafts == SanctionDrafts \cup ServerDrafts
CachingDrafts == {"part_003", "part_007", "server.js_hex", "server.js_update"}
\* The drafts whose sanction routes check neither the identity nor the
\* referenceId, and sit behind no admin check.
PlainDrafts == {"part_003", "server.js_update"}

Slots == 1 .. MaxInFlight

\* Request bodies.  "undefined" is the nine-letter string, not Absent.
TrackIds == {Absent, "", "abc", "undefined", "abc123"}
AdminIds == {"abc123", "undefined"}
\* The identity the admin bans.
BanIds == {"abc123"}
ReasonInputs == {Absent, "", "cheating"}
\* durationMinutes in half minutes: absent, -1, 0, 0.5, 1
DurationInputs == {NULL, <<-2>>, <<0>>, <<1>>, <<2>>}

\* Request bodies of the sanctions drafts.
SanctionIds == {"", " ", "abc123", " abc123"}
RemoveIds == {Absent, "abc123"}
ReferenceIds == {Absent, "abc123"}
\* expires_in of a token answer, in minutes.
ExpiresInInputs == {4, 5, 6}

Idle == [op |-> "idle"]
NoResp == [route |-> "none"]
\* The scheduler before startBackupSchedule() or the bot's ready event: no
\* task, no callback due, no interval elapsed, nothing logged.
NoCron == [tasks |-> 0, due |-> 0, fired |-> 0, errors |-> 0, alive |-> TRUE,
           starts |-> 0]
\* The value of ADMIN_PASSWORD when it is configured.
Secret == "hunter2"
NoHit == [route |-> "none"]

\* The place of a document inserted now in the natural order of the
\* collection: after every document there is.
Last == Cardinality(players) + 1

\* PlayerSchema: one document of the Player collection, as it is inserted:
\* firstSeen: { type: Date, default: Date.now }; no route writes the legacy
\* playerId.  `id` is the _id, by which a handler holds on to its document;
\* `at` is the document's place in natural order.
PlayerDoc(id, pid, banned, reason, expires, count) ==
    [id |-> id, at |-> Last, productUserId |-> pid, playerId |-> Absent,
     isBanned |-> banned, banReason |-> reason, banExpiresAt |-> expires,
     banCount |-> count, firstSeen |-> <<now>>]

\* A new document with the schema defaults.
DefaultDoc(id, pid) == PlayerDoc(id, pid, FALSE, "", NULL, 0)

\* The same, firstSeen having been evaluated at time t: the document is
\* inserted when the awaited call lands, with the date the handler took
\* when it built the document or issued the upsert.
SeenAt(id, pid, t) == [DefaultDoc(id, pid) EXCEPT !.firstSeen = <<t>>]

\* PlayerSchema of the sanctions drafts: the ban is one flag.
SanctionDoc(id, pid, banned) ==
    [id |-> id, at |-> Last, productUserId |-> pid, isBanned |-> banned]

----------------------------------------------------------------------------
(* JavaScript helpers *)

\* !x for the request values that occur here.
Falsy(x) == x = Absent \/ x = ""

\* parseInt(d) of a number d given as 2*d: truncation toward zero.
ParseInt(h) == IF h >= 0 THEN h \div 2 ELSE -((-h) \div 2)

\* x.trim() for the identities that occur here.
Trim(x) ==
    IF x = " " THEN ""
    ELSE IF x = " abc123" THEN "abc123"
    ELSE x

\* reason || placeholder
ReasonOrNothing(reason, placeholder) == IF reason = Absent THEN "" ELSE reason
ReasonOr(reason, placeholder) == IF Falsy(reason) THEN placeholder ELSE reason

----------------------------------------------------------------------------
(* Database primitives *)

\* The document a findOne-style call picks among the matches: natural order,
\* which is the order of insertion.
First(S) == CHOOSE p \in S : \A q \in S : p.at <= q.at

\* The collection without document old: the documents inserted after it
\* move up one place.
Without(ps, old) ==
    {IF p.at > old.at THEN [p EXCEPT !.at = @ - 1] ELSE p : p \in ps \ {old}}

\* { productUserId } filter.
ByPid(pid) == {p \in players : p.productUserId = pid}

\* { $or: [{ productUserId }, { playerId }] } filter.
ByOr(pid) == {p \in players : p.productUserId = pid \/ p.playerId = pid}

\* The filter of unban and delete: by $or in part_005 and server.js, else by
\* productUserId.
ByFilter(pid) == IF draft \in SnapshotDrafts THEN ByOr(pid) ELSE ByPid(pid)

\* Replace document old by new.
Put(ps, old, new) == (ps \ {old}) \cup {new}

\* The update of checkExpirations: which documents its filter matches.
ExpiredAtStrictly(p, t) ==
    p.isBanned /\ p.banExpiresAt # NULL /\ p.banExpiresAt[1] < t
\* The filter without { $ne: null }, a null date counted as passed.
ExpiredOrPermanent(p, t) ==
    p.isBanned /\ (p.banExpiresAt = NULL \/ p.banExpiresAt[1] <= t)
ExpiredAt(p, t) ==
    p.isBanned /\ p.banExpiresAt # NULL /\ p.banExpiresAt[1] <= t

\* $set of checkExpirations and of POST /api/unban.
KeepReason(p) == [p EXCEPT !.isBanned = FALSE, !.banExpiresAt = NULL]
KeepExpiry(p) == [p EXCEPT !.isBanned = FALSE, !.banReason = ""]
Cleared(p) ==
    [p EXCEPT !.isBanned = FALSE, !.banReason = "", !.banExpiresAt = NULL]

\* checkExpirations(): Player.updateMany(filter, $set) at time t.
checkExpirations(ps, t) ==
    {IF ExpiredAt(p, t) THEN Cleared(p) ELSE p : p \in ps}

\* The identities whose ban checkExpirations lifts at time t.
Lifted(ps, t) == {p.id : p \in {q \in ps : ExpiredAt(q, t)}}

----------------------------------------------------------------------------
(* Slots and responses *)

FreeSlot(s) == req[s] = Idle /\ \A r \in Slots : r < s => req[r] # Idle

\* No handler is suspended at an await.
Alone == \A s \in Slots : req[s] = Idle

Hit(route, lifted) == [route |-> route, lifted |-> lifted]

\* The record an unban matches among m, if it is banned.
WasBanned(m) == IF m # {} /\ First(m).isBanned THEN {First(m).id} ELSE {}

\* Stored snapshots whose timestamp is refreshed by every request served.
QuietRestamps ==
    /\ backups' = {[b EXCEPT !.timestamp = now] : b \in backups}
    /\ UNCHANGED <<draft, env, cron, tokenCache, sanctions>>
Quiet == UNCHANGED <<draft, env, cron, backups, tokenCache, sanctions>>

\* Documents a suspended handler may still insert.
PendingOf(r) ==
    IF r.op = "track" /\ r.pc # "backfill" THEN 1
    ELSE IF r.op = "create" THEN 1
    ELSE IF r.op = "restore" THEN Len(r.todo)
    ELSE 0

RECURSIVE PendingIn(_)
PendingIn(S) ==
    IF S = {} THEN 0
    ELSE LET s == CHOOSE x \in S : TRUE
         IN PendingOf(req[s]) + PendingIn(S \ {s})

Pending == PendingIn(Slots)

\* Room for one more document after all pending inserts (MaxDocs bounds the
\* collection).
Room == Cardinality(players) + Pending < MaxDocs

\* The _id of a new document: one no document has and no handler holds.
Held == {req[s].doc : s \in {r \in Slots : req[r].op = "track" /\ req[r].pc = "backfill"}}
NewId == CHOOSE i \in 1 .. (MaxDocs + MaxInFlight) :
            /\ i \notin {p.id : p \in players} \cup Held
            /\ \A j \in 1 .. (i - 1) : j \in {p.id : p \in players} \cup Held

TrackResp(status, pid, banned) ==
    [route |-> "track", status |-> status, pid |-> pid, isBanned |-> banned]

\* res.json({ success: true }), the answer of the admin routes.
AdminOk == [route |-> "admin", status |-> 200]

\* The same answer given by POST /api/unban to the request for pid.
UnbanOk(pid) == [route |-> "unban", status |-> 200, pid |-> pid]

----------------------------------------------------------------------------
(* Initial state: a fresh database, nothing in flight *)

\* The server has started: no snapshot, no request, no token, no schedule.

Blank ==
    /\ now = 0
    /\ backups = {}
    /\ req = [s \in Slots |-> Idle]
    /\ resp = NoResp
    /\ hit = NoHit
    /\ tokenCache = [token |-> NULL, expiresAt |-> 0]
    /\ sanctions = {}
    /\ cron = NoCron

\* The same with an empty Player collection.
Fresh == Blank /\ players = {}

\* The same with ADMIN_PASSWORD configured.
InitStore == Fresh /\ env = [ADMIN_PASSWORD |-> Secret]

Init == draft \in BanDrafts /\ InitStore

\* The retention window of createSnapshot, in minutes: 24 * 60 * 60 * 1000 ms.
RetentionMinutes == 1440

\* Time passes between any two steps (MaxClock bounds the minutes counted
\* after the start and after each full day).
Tick ==
    /\ now % RetentionMinutes < MaxClock
    /\ now' = now + 1
    /\ resp' = NoResp
    /\ hit' = NoHit
    /\ UNCHANGED <<players, req>>
    /\ Quiet

----------------------------------------------------------------------------
(* The admin check in front of the admin routes *)

\* The x-admin-auth header of a request: none, the secret, another value.
HeaderInputs == {Absent, Secret, "ilikemath"}

\* const ADMIN_PASSWORD: process.env.ADMIN_PASSWORD, which part_002 replaces
\* by "ilikemath" when it is not set.
AdminPassword ==
    IF draft = "part_002" /\ Falsy(env.ADMIN_PASSWORD) THEN "ilikemath"
    ELSE env.ADMIN_PASSWORD

\* The drafts whose middleware lets every request pass while ADMIN_PASSWORD
\* is not set.
OpenWhenUnsetDrafts ==
    {"part_007", "part_007_diagnostic", "server.js_simple", "server.js_hex"}

\* The middleware that compares only when the password is set, also where
\* a strict comparison is written.
AdmitsWhenUnset(header) ==
    Falsy(AdminPassword) \/ header = AdminPassword

\* verifyAdmin / verifyAdminPassword call next(): part_003 mounts no
\* middleware; the lockdown draft answers 403 to everything; part_007
\* compares only when ADMIN_PASSWORD is set; the other drafts compare the
\* header with process.env.ADMIN_PASSWORD by !==, undefined with undefined
\* included.
Admits(header) ==
    IF draft \in PlainDrafts THEN TRUE
    ELSE IF draft = "part_007_lockdown" THEN FALSE
    ELSE IF draft \in OpenWhenUnsetDrafts THEN AdmitsWhenUnset(header)
    ELSE header = AdminPassword

\* res.status(403).json({ error: "Access Denied" })
Denied ==
    /\ resp' = [route |-> "admin", status |-> 403]
    /\ hit' = NoHit
    /\ UNCHANGED <<now, players, req>>
    /\ Quiet

\* A request with this header to a route mounted behind the middleware.
Guarded(header, route) == IF Admits(header) THEN route ELSE Denied

----------------------------------------------------------------------------
(* part_004 and part_006: timed bans with lazy expiry *)

\* POST /api/players/track up to its second await: the identity check, then
\* checkExpirations(); part_006 goes on to issue its upsert, whose
\* firstSeen default (Date.now) is evaluated then.
TrackExpire(s, pid) ==
    /\ draft \in ExpiryDrafts
    /\ FreeSlot(s) /\ Room
    /\ IF Falsy(pid)
       THEN /\ resp' = TrackResp(400, pid, FALSE)
            /\ hit' = NoHit
            /\ UNCHANGED <<players, req>>
       ELSE /\ players' = checkExpirations(players, now)
            /\ hit' = Hit("track", Lifted(players, now))
            /\ req' = [req EXCEPT ![s] =
                 IF draft = "part_006"
                 THEN [op |-> "track", pid |-> pid, pc |-> "upsert",
                       seen |-> now]
                 ELSE [op |-> "track", pid |-> pid, pc |-> "find"]]
            /\ resp' = NoResp
    /\ UNCHANGED now
    /\ Quiet

\* part_006: Player.findOneAndUpdate({productUserId}, ..., {upsert, new}) and
\* the answer.  The unique index on productUserId makes the upsert atomic.
TrackUpsert(s) ==
    /\ draft = "part_006"
    /\ req[s].op = "track" /\ req[s].pc = "upsert"
    /\ LET m == ByPid(req[s].pid)
           player == IF m = {} THEN SeenAt(NewId, req[s].pid, req[s].seen)
                     ELSE First(m)
       IN /\ players' = players \cup {player}
          /\ resp' = TrackResp(200, req[s].pid, player.isBanned)
    /\ req' = [req EXCEPT ![s] = Idle]
    /\ hit' = NoHit
    /\ UNCHANGED now
    /\ Quiet

\* part_004: let player = await Player.findOne({productUserId}), and when
\* there is none new Player({..., firstSeen: new Date()}), built before its
\* save() is awaited.
TrackFind(s) ==
    /\ draft = "part_004"
    /\ req[s].op = "track" /\ req[s].pc = "find"
    /\ LET m == ByPid(req[s].pid)
       IN req' = [req EXCEPT ![s] =
            IF m = {}
            THEN [op |-> "track", pc |-> "save", pid |-> req[s].pid,
                  isNew |-> TRUE, isBanned |-> FALSE, seen |-> now]
            ELSE [op |-> "track", pc |-> "save", pid |-> req[s].pid,
                  isNew |-> FALSE, isBanned |-> First(m).isBanned]]
    /\ resp' = NoResp
    /\ hit' = NoHit
    /\ UNCHANGED <<now, players>>
    /\ Quiet

\* save() writing back the isBanned that findOne had read, instead of the
\* modified paths only.
TrackSaveWritesCopy(s) ==
    /\ draft = "part_004"
    /\ req[s].op = "track" /\ req[s].pc = "save"
    /\ IF req[s].isNew /\ ByPid(req[s].pid) # {}
       THEN /\ resp' = TrackResp(500, req[s].pid, FALSE)
            /\ UNCHANGED players
       ELSE /\ players' = IF req[s].isNew
                          THEN players \cup
                                 {SeenAt(NewId, req[s].pid, req[s].seen)}
                          ELSE {IF p.productUserId = req[s].pid
                                THEN [p EXCEPT !.isBanned = req[s].isBanned]
                                ELSE p : p \in players}
            /\ resp' = TrackResp(200, req[s].pid, req[s].isBanned)
    /\ req' = [req EXCEPT ![s] = Idle]
    /\ hit' = NoHit
    /\ UNCHANGED now
    /\ Quiet
\* part_004: await player.save() and the answer.  A new document is inserted
\* (the unique index rejects a second one: the catch answers 500); an
\* existing one gets only the paths the handler modified, none of them a ban
\* field.  The answer carries isBanned of the copy read by findOne.
TrackSave(s) ==
    /\ draft = "part_004"
    /\ req[s].op = "track" /\ req[s].pc = "save"
    /\ IF req[s].isNew /\ ByPid(req[s].pid) # {}
       THEN /\ resp' = TrackResp(500, req[s].pid, FALSE)
            /\ UNCHANGED players
       ELSE /\ players' = IF req[s].isNew
                          THEN players \cup
                                 {SeenAt(NewId, req[s].pid, req[s].seen)}
                          ELSE players
            /\ resp' = TrackResp(200, req[s].pid, req[s].isBanned)
    /\ req' = [req EXCEPT ![s] = Idle]
    /\ hit' = NoHit
    /\ UNCHANGED now
    /\ Quiet

\* GET /api/players up to its first await: checkExpirations().
ListExpire(s) ==
    /\ draft \in ExpiryDrafts
    /\ FreeSlot(s)
    /\ players' = checkExpirations(players, now)
    /\ hit' = Hit("list", Lifted(players, now))
    /\ req' = [req EXCEPT ![s] = [op |-> "list", pc |-> "find"]]
    /\ resp' = NoResp
    /\ UNCHANGED now
    /\ Quiet

\* GET /api/players: Player.find() and the answer.
ListFind(s) ==
    /\ draft \in ExpiryDrafts
    /\ req[s].op = "list" /\ req[s].pc = "find"
    /\ resp' = [route |-> "list", status |-> 200, players |-> players]
    /\ req' = [req EXCEPT ![s] = Idle]
    /\ hit' = NoHit
    /\ UNCHANGED <<now, players>>
    /\ Quiet

\* expireDate of POST /api/ban: durationMinutes > 0 ? now + parseInt(..) : null
ExpireDate(dur) ==
    IF dur # NULL /\ dur[1] > 0 THEN <<now + ParseInt(dur[1])>> ELSE NULL

\* The update document of POST /api/ban applied to a matched document.
Banned(p, reason, expires) ==
    [p EXCEPT !.isBanned = TRUE, !.banReason = reason,
              !.banExpiresAt = expires, !.banCount = p.banCount + 1]

\* POST /api/ban: one findOneAndUpdate with {upsert: true}.
Ban(pid, reason, dur) ==
    /\ draft \in ExpiryDrafts
    /\ LET m == ByPid(pid)
           why == ReasonOr(reason, "Admin Ban")
       IN IF m = {}
          THEN /\ Room
               /\ players' = players \cup
                    {PlayerDoc(NewId, pid, TRUE, why, ExpireDate(dur), 1)}
          ELSE /\ First(m).banCount < MaxBans
               /\ players' = Put(players, First(m),
                                 Banned(First(m), why, ExpireDate(dur)))
    /\ resp' = AdminOk
    /\ hit' = NoHit
    /\ UNCHANGED <<now, req>>
    /\ Quiet

\* The same update with {upsert: true}.
UnbanUpsert(pid) ==
    /\ draft \in ExpiryDrafts \cup SnapshotDrafts
    /\ LET m == ByFilter(pid)
       IN /\ m = {} => Room
          /\ players' = IF m = {} THEN players \cup {DefaultDoc(NewId, pid)}
                        ELSE Put(players, First(m), Cleared(First(m)))
          /\ hit' = Hit("unban", WasBanned(m))
    /\ resp' = UnbanOk(pid)
    /\ UNCHANGED <<now, req>>
    /\ Quiet

\* POST /api/unban: one findOneAndUpdate, no upsert.  part_005 and server.js
\* filter by $or [{productUserId}, {playerId}].
Unban(pid) ==
    /\ draft \in ExpiryDrafts \cup SnapshotDrafts
    /\ LET m == ByFilter(pid)
       IN /\ players' = IF m = {} THEN players
                        ELSE Put(players, First(m), Cleared(First(m)))
          /\ hit' = Hit("unban", WasBanned(m))
    /\ resp' = UnbanOk(pid)
    /\ UNCHANGED <<now, req>>
    /\ Quiet

\* POST /api/delete (part_006, part_005, server.js): findOneAndDelete.
Delete(pid) ==
    /\ draft \in SnapshotDrafts \cup {"part_006"}
    /\ LET m == ByFilter(pid)
       IN players' = IF m = {} THEN players ELSE Without(players, First(m))
    /\ resp' = AdminOk
    /\ hit' = NoHit
    /\ UNCHANGED <<now, req>>
    /\ Quiet

----------------------------------------------------------------------------
(* part_005 (and server.js:1-184): $or filters, no unique index *)

\* The identity check of track: !productUserId || productUserId.length < 5
InvalidId(pid) == Falsy(pid) \/ Len(pid) < 5

\* POST /api/players/track up to its second await: the identity check and
\* findOneAndUpdate({$or: [...]}, updateData, {new, upsert}).  An upsert
\* under an $or filter copies no field of the filter into the inserted
\* document, so the new document has no productUserId and the handler goes
\* on to back-fill it, as it does for a document matched by its playerId; a
\* document matched by its productUserId is answered at once.
TrackOr(s, pid) ==
    /\ draft \in OrDrafts
    /\ FreeSlot(s) /\ Room
    /\ hit' = NoHit
    /\ IF InvalidId(pid)
       THEN /\ resp' = TrackResp(400, pid, FALSE)
            /\ UNCHANGED <<players, req>>
       ELSE LET m == ByOr(pid)
            IN IF m = {}
               THEN /\ players' = players \cup {DefaultDoc(NewId, Absent)}
                    /\ req' = [req EXCEPT ![s] =
                         [op |-> "track", pc |-> "backfill", pid |-> pid,
                          doc |-> NewId, isBanned |-> FALSE]]
                    /\ resp' = NoResp
               ELSE IF Falsy(First(m).productUserId)
               THEN /\ req' = [req EXCEPT ![s] =
                         [op |-> "track", pc |-> "backfill", pid |-> pid,
                          doc |-> First(m).id,
                          isBanned |-> First(m).isBanned]]
                    /\ resp' = NoResp
                    /\ UNCHANGED players
               ELSE /\ resp' = TrackResp(200, pid, First(m).isBanned)
                    /\ UNCHANGED <<players, req>>
    /\ UNCHANGED now
    /\ Quiet

\* if (!player.productUserId) { player.productUserId = ...; await player.save() }
\* and the answer: save() sets the one modified path on the document by _id,
\* and throws when the document is gone, which the catch answers with 500.
TrackBackfill(s) ==
    /\ draft \in OrDrafts
    /\ req[s].op = "track" /\ req[s].pc = "backfill"
    /\ players' = {IF p.id = req[s].doc
                   THEN [p EXCEPT !.productUserId = req[s].pid] ELSE p :
                   p \in players}
    /\ resp' = IF \E p \in players : p.id = req[s].doc
               THEN TrackResp(200, req[s].pid, req[s].isBanned)
               ELSE TrackResp(500, req[s].pid, FALSE)
    /\ req' = [req EXCEPT ![s] = Idle]
    /\ hit' = NoHit
    /\ UNCHANGED now
    /\ Quiet

\* expireDate of part_005: durationMinutes && parseInt(durationMinutes) > 0
ExpireDateParsed(dur) ==
    IF dur # NULL /\ dur[1] # 0 /\ ParseInt(dur[1]) > 0
    THEN <<now + ParseInt(dur[1])>> ELSE NULL

\* POST /api/ban of part_005 and server.js: findOneAndUpdate without upsert;
\* the answer is success whether or not a document matched.
BanOr(pid, reason, dur) ==
    /\ draft \in SnapshotDrafts
    /\ LET m == ByOr(pid)
       IN IF m = {}
          THEN UNCHANGED players
          ELSE /\ First(m).banCount < MaxBans
               /\ players' = Put(players, First(m),
                                 Banned(First(m), ReasonOr(reason, "Admin Ban"),
                                        ExpireDateParsed(dur)))
    /\ resp' = AdminOk
    /\ hit' = NoHit
    /\ UNCHANGED <<now, req>>
    /\ Quiet

\* GET /api/players of the drafts without lazy expiry: find() and the answer.
List ==
    /\ draft \in {"part_002"} \cup SnapshotDrafts
    /\ resp' = [route |-> "list", status |-> 200, players |-> players]
    /\ hit' = NoHit
    /\ UNCHANGED <<now, players, req>>
    /\ Quiet

----------------------------------------------------------------------------
(* part_005: snapshots of the player store and their restore *)

\* Player.find({}, {_id: 0, __v: 0}): the documents without their _id, in
\* natural order.
Projected(p) ==
    [productUserId |-> p.productUserId, playerId |-> p.playerId,
     isBanned |-> p.isBanned, banReason |-> p.banReason,
     banExpiresAt |-> p.banExpiresAt, banCount |-> p.banCount,
     firstSeen |-> p.firstSeen]

RECURSIVE InOrder(_)
InOrder(S) ==
    IF S = {} THEN << >>
    ELSE <<Projected(First(S))>> \o InOrder(S \ {First(S)})

\* players.filter(p => p.isBanned).length
BannedInAll(data) == Len(data)
BannedIn(data) == Cardinality({i \in 1 .. Len(data) : data[i].isBanned})

\* Snapshots being taken that have not been saved yet.
Saving == Cardinality({s \in Slots : req[s].op = "snapshot" /\ req[s].pc = "save"})

NewBackupId == CHOOSE i \in 1 .. (MaxBackups + 1) :
                  /\ i \notin {b.id : b \in backups}
                  /\ \A j \in 1 .. (i - 1) : j \in {b.id : b \in backups}

\* res.json({ success: true }) of POST /api/backups/create, after a
\* createSnapshot() that went on to save, or that returned on an empty store.
SnapshotOk(saved) == [route |-> "snapshot", status |-> 200, saved |-> saved]

\* The name of POST /api/backups/create's body.
NameInputs == {Absent, "before wipe"}

\* name: customName || "SNAPSHOT [AUTO]"; the Backup of server.js has no name.
NameOr(customName) ==
    IF draft = "server.js" THEN Absent
    ELSE IF Falsy(customName) THEN "SNAPSHOT [AUTO]" ELSE customName

\* What the caller of createSnapshot() answers when it returns: the route
\* answers success, the scheduled callback answers nobody.
SnapshotDone(by, saved) == IF by = "route" THEN SnapshotOk(saved) ELSE NoResp

\* createSnapshot() without the return on an empty store.
SnapshotFindAlways(s, customName) ==
    /\ draft \in SnapshotDrafts
    /\ FreeSlot(s)
    /\ hit' = NoHit
    /\ req' = [req EXCEPT ![s] =
          [op |-> "snapshot", pc |-> "save", data |-> InOrder(players),
           name |-> customName, by |-> "route", stamp |-> now]]
    /\ resp' = NoResp
    /\ UNCHANGED <<draft, env, cron, now, players, backups, tokenCache, sanctions>>

\* createSnapshot(customName) up to its second await: the read of the
\* players, the return when there are none, and new Backup({timestamp:
\* new Date(), ...}), built before its save() is awaited.
SnapshotBegin(s, customName, by) ==
    /\ draft \in SnapshotDrafts
    /\ FreeSlot(s)
    /\ hit' = NoHit
    /\ IF players = {}
       THEN /\ resp' = SnapshotDone(by, FALSE)
            /\ UNCHANGED req
       ELSE /\ req' = [req EXCEPT ![s] =
                 [op |-> "snapshot", pc |-> "save", data |-> InOrder(players),
                  name |-> customName, by |-> by, stamp |-> now]]
            /\ resp' = NoResp
    /\ UNCHANGED <<draft, env, now, players, backups, tokenCache, sanctions>>

\* POST /api/backups/create: createSnapshot(name) up to its first await, and
\* the answer when it returned on an empty store.
SnapshotFind(s, customName) ==
    /\ SnapshotBegin(s, customName, "route")
    /\ UNCHANGED cron

\* await new Backup({...}).save(), and the cutoff, new Date(Date.now() -
\* 24 h), taken before deleteMany is awaited.
SnapshotSave(s) ==
    /\ draft \in SnapshotDrafts
    /\ req[s].op = "snapshot" /\ req[s].pc = "save"
    /\ LET data == req[s].data
       IN backups' = backups \cup
            {[id |-> NewBackupId, timestamp |-> req[s].stamp,
              name |-> NameOr(req[s].name),
              totalPlayers |-> Len(data), bannedCount |-> BannedIn(data),
              cleanCount |-> Len(data) - BannedIn(data), data |-> data]}
    /\ req' = [req EXCEPT ![s] =
          [op |-> "snapshot", pc |-> "prune", by |-> req[s].by,
           cutoff |-> now - RetentionMinutes]]
    /\ resp' = NoResp
    /\ hit' = NoHit
    /\ UNCHANGED <<draft, env, cron, now, players, tokenCache, sanctions>>

\* await Backup.deleteMany({timestamp: {$lt: cutoff}}), the end of
\* createSnapshot, and the answer of the route that awaited it.
SnapshotPrune(s) ==
    /\ draft \in SnapshotDrafts
    /\ req[s].op = "snapshot" /\ req[s].pc = "prune"
    /\ backups' = {b \in backups : ~(b.timestamp < req[s].cutoff)}
    /\ resp' = SnapshotDone(req[s].by, TRUE)
    /\ req' = [req EXCEPT ![s] = Idle]
    /\ hit' = NoHit
    /\ UNCHANGED <<draft, env, cron, now, players, tokenCache, sanctions>>

\* The Backup collection has room for one more snapshot when it is bounded
\* by n.
SnapshotRoom(n) == Cardinality(backups) + Saving < n

\* Player.find() of createSnapshot rejects: the catch logs "Snapshot Failed"
\* and createSnapshot returns to its caller.
SnapshotFindThrows(by) ==
    /\ draft \in SnapshotDrafts
    /\ cron.errors < MaxErrors
    /\ by = "cron" => cron.due > 0
    /\ cron' = [cron EXCEPT !.errors = @ + 1,
                            !.due = IF by = "cron" THEN @ - 1 ELSE @]
    /\ resp' = SnapshotDone(by, FALSE)
    /\ hit' = NoHit
    /\ UNCHANGED <<draft, env, now, players, backups, req, tokenCache, sanctions>>

\* save() or deleteMany() of createSnapshot rejects: the catch logs
\* "Snapshot Failed" and createSnapshot returns to its caller.
SnapshotThrows(s) ==
    /\ draft \in SnapshotDrafts
    /\ req[s].op = "snapshot"
    /\ cron.errors < MaxErrors
    /\ cron' = [cron EXCEPT !.errors = @ + 1]
    /\ resp' = SnapshotDone(req[s].by, req[s].pc = "prune")
    /\ req' = [req EXCEPT ![s] = Idle]
    /\ hit' = NoHit
    /\ UNCHANGED <<draft, env, now, players, backups, tokenCache, sanctions>>

----------------------------------------------------------------------------
(* The snapshot schedule: part_005:60-70, server.js:53-61 *)

\* The drafts whose cron expression is '0 * * * *'; the others run
\* '* * * * *'.
HourlyDrafts == {"server.js"}

\* The then-callback of mongoose.connect(...) has run in this process
\* (part_005:19-22, server.js:19-23); it runs once, and it is the only
\* caller of startBackupSchedule.
Connected == cron.tasks > 0

\* startBackupSchedule() called whatever the process has done before, as a
\* second call site would call it.
StartBackupScheduleAgain ==
    /\ draft \in SnapshotDrafts
    /\ cron.starts < MaxSchedules
    /\ cron' = [cron EXCEPT !.tasks = IF draft = "server.js" THEN @ + 1 ELSE 1,
                            !.starts = @ + 1]
    /\ resp' = NoResp
    /\ hit' = NoHit
    /\ UNCHANGED <<draft, env, now, players, backups, req, tokenCache, sanctions>>

\* mongoose.connect(...).then(() => startBackupSchedule()), the one call
\* the process makes (part_005:19-22, server.js:19-23): part_005 stops the
\* task it holds and schedules a new one; server.js holds no task and
\* schedules one more.  MaxSchedules bounds the calls over the restarts of
\* the process.
StartBackupSchedule ==
    /\ draft \in SnapshotDrafts
    /\ ~Connected
    /\ cron.starts < MaxSchedules
    /\ cron' = [cron EXCEPT !.tasks = IF draft = "server.js" THEN @ + 1 ELSE 1,
                            !.starts = @ + 1]
    /\ resp' = NoResp
    /\ hit' = NoHit
    /\ UNCHANGED <<draft, env, now, players, backups, req, tokenCache, sanctions>>

\* The process ends and is started again after `down` minutes: its
\* handlers and its scheduled tasks are gone, the database is as it was
\* (MaxDays bounds the clock).
Restart(down) ==
    /\ draft \in SnapshotDrafts
    /\ now + down <= MaxDays * RetentionMinutes + MaxClock
    /\ now' = now + down
    /\ req' = [s \in Slots |-> Idle]
    /\ cron' = [cron EXCEPT !.tasks = 0, !.due = 0]
    /\ resp' = NoResp
    /\ hit' = NoHit
    /\ UNCHANGED <<draft, env, players, backups, tokenCache, sanctions>>

\* The schedule '0 * * * *': the next full hour, in minutes.
NextHour(t) == ((t \div 60) + 1) * 60

\* The next time the cron expression matches.
NextRun(t) == IF draft \in HourlyDrafts THEN NextHour(t) ELSE t + 1

\* The clock reaches the next run: every scheduled task owes one call of its
\* callback.
Interval ==
    /\ cron.alive
    /\ cron.tasks > 0
    /\ cron.due = 0
    /\ cron.fired < MaxIntervals
    /\ now' = NextRun(now)
    /\ cron' = [cron EXCEPT !.due = cron.tasks, !.fired = @ + 1]
    /\ resp' = NoResp
    /\ hit' = NoHit
    /\ UNCHANGED <<draft, env, players, backups, req, tokenCache, sanctions>>

\* The callback of one task: await createSnapshot("SNAPSHOT [AUTO]"), or
\* createSnapshot() in server.js, up to its first await.
ScheduledFind(s) ==
    /\ cron.due > 0
    /\ SnapshotBegin(s, IF draft = "server.js" THEN Absent
                        ELSE "SNAPSHOT [AUTO]", "cron")
    /\ cron' = [cron EXCEPT !.due = @ - 1]

----------------------------------------------------------------------------
(* The Discord bot: bot.js:1-69 and part_000 *)

BotDrafts == {"bot.js", "part_000"}

\* client.once('ready'): the task is scheduled; part_000 first calls
\* runBackup() once, up to its first await.
BotReady(s) ==
    /\ draft \in BotDrafts
    /\ cron.alive
    /\ cron.tasks = 0
    /\ FreeSlot(s)
    /\ cron' = [cron EXCEPT !.tasks = 1]
    /\ req' = IF draft = "part_000"
              THEN [req EXCEPT ![s] =
                      [op |-> "backup", pc |-> "fetch", by |-> "cron"]]
              ELSE req
    /\ resp' = NoResp
    /\ hit' = NoHit
    /\ UNCHANGED <<draft, env, now, players, backups, tokenCache, sanctions>>

\* The callback of the task: runBackup() up to its first await,
\* client.channels.fetch(CHANNEL_ID).
BotRun(s) ==
    /\ draft \in BotDrafts
    /\ cron.alive
    /\ cron.due > 0
    /\ FreeSlot(s)
    /\ cron' = [cron EXCEPT !.due = @ - 1]
    /\ req' = [req EXCEPT ![s] =
          [op |-> "backup", pc |-> "fetch", by |-> "cron"]]
    /\ resp' = NoResp
    /\ hit' = NoHit
    /\ UNCHANGED <<draft, env, now, players, backups, tokenCache, sanctions>>

\* forceTestMessage(), which bot.js:69 exports: runBackup() called by the
\* module that imports it, up to its first await.  While the client is not
\* ready it logs and throws "Bot not ready" to that caller.
ForceTestMessage(s) ==
    /\ draft = "bot.js"
    /\ cron.alive
    /\ FreeSlot(s)
    /\ IF cron.tasks > 0
       THEN /\ req' = [req EXCEPT ![s] =
                 [op |-> "backup", pc |-> "fetch", by |-> "caller"]]
            /\ UNCHANGED cron
       ELSE /\ cron.errors < MaxErrors
            /\ cron' = [cron EXCEPT !.errors = @ + 1]
            /\ UNCHANGED req
    /\ resp' = NoResp
    /\ hit' = NoHit
    /\ UNCHANGED <<draft, env, now, players, backups, tokenCache, sanctions>>

\* The channel is fetched: await Player.find({}, {_id: 0, __v: 0}).
BotFetch(s) ==
    /\ draft \in BotDrafts
    /\ cron.alive
    /\ req[s].op = "backup" /\ req[s].pc = "fetch"
    /\ req' = [req EXCEPT ![s].pc = "find"]
    /\ resp' = NoResp
    /\ hit' = NoHit
    /\ UNCHANGED <<now, players>>
    /\ Quiet

\* The players are read: await channel.send({content, files}).
BotFind(s) ==
    /\ draft \in BotDrafts
    /\ cron.alive
    /\ req[s].op = "backup" /\ req[s].pc = "find"
    /\ req' = [req EXCEPT ![s] =
          [op |-> "backup", pc |-> "send", data |-> InOrder(players),
           by |-> req[s].by]]
    /\ resp' = NoResp
    /\ hit' = NoHit
    /\ UNCHANGED <<now, players>>
    /\ Quiet

\* The message is sent and runBackup() returns.
BotSend(s) ==
    /\ draft \in BotDrafts
    /\ cron.alive
    /\ req[s].op = "backup" /\ req[s].pc = "send"
    /\ req' = [req EXCEPT ![s] = Idle]
    /\ resp' = NoResp
    /\ hit' = NoHit
    /\ UNCHANGED <<now, players>>
    /\ Quiet

\* The process after an unhandled promise rejection that ended it.
Crashed(c) == [c EXCEPT !.tasks = 0, !.due = 0, !.alive = FALSE]

\* An await of runBackup() rejects, or the channel is null.  part_000 logs
\* in its catch and returns.  bot.js logs and rethrows: to the caller of
\* forceTestMessage(), or into the cron callback, which neither awaits nor
\* catches the promise, so that the rejection is unhandled and the runtime
\* either ends the process or only warns.
BotThrows(s, survives) ==
    /\ draft \in BotDrafts
    /\ cron.alive
    /\ req[s].op = "backup"
    /\ cron.errors < MaxErrors
    /\ IF draft = "part_000" \/ survives \/ req[s].by = "caller"
       THEN /\ cron' = [cron EXCEPT !.errors = @ + 1]
            /\ req' = [req EXCEPT ![s] = Idle]
       ELSE /\ cron' = Crashed([cron EXCEPT !.errors = @ + 1])
            /\ req' = [r \in Slots |-> Idle]
    /\ resp' = NoResp
    /\ hit' = NoHit
    /\ UNCHANGED <<draft, env, now, players, backups, tokenCache, sanctions>>

----------------------------------------------------------------------------
(* part_005: backup routes, continued *)

\* DELETE /api/backups/:id
BackupDelete(bid) ==
    /\ draft = "part_005"
    /\ backups' = {b \in backups : b.id # bid}
    /\ resp' = AdminOk
    /\ hit' = NoHit
    /\ UNCHANGED <<draft, env, cron, now, players, req, tokenCache, sanctions>>

\* POST /api/backups/restore/:id up to the loop: Backup.findById, the 404
\* when there is none, and const players = snapshot.data.
Restore(s, bid) ==
    /\ draft \in SnapshotDrafts
    /\ FreeSlot(s)
    /\ hit' = NoHit
    /\ LET found == {b \in backups : b.id = bid}
       IN IF found = {}
          THEN /\ resp' = [route |-> "restore", status |-> 404, bid |-> bid]
               /\ UNCHANGED req
          ELSE LET snapshot == CHOOSE b \in found : TRUE
               IN /\ Cardinality(players) + Pending + Len(snapshot.data) <= MaxDocs
                  /\ req' = [req EXCEPT ![s] =
                       [op |-> "restore", pc |-> "loop", bid |-> bid,
                        todo |-> snapshot.data, count |-> 0]]
                  /\ resp' = NoResp
    /\ UNCHANGED <<now, players>>
    /\ Quiet

\* const pid = p.productUserId || p.playerId
IdentityOf(p) ==
    IF Falsy(p.productUserId) THEN p.playerId ELSE p.productUserId

\* The entries of a snapshot payload whose upsert would insert a document:
\* one for each identity no record of the collection has.
Inserts(data) ==
    Cardinality({pid \in {IdentityOf(data[i]) : i \in DOMAIN data} :
                   ~Falsy(pid) /\ ByOr(pid) = {}})

\* POST /api/backups/restore/:id up to the loop, into a collection that
\* holds records of the payload already: the collection is bounded by
\* counting the entries that insert.
RestoreOver(s, bid) ==
    /\ draft \in SnapshotDrafts
    /\ FreeSlot(s)
    /\ hit' = NoHit
    /\ LET found == {b \in backups : b.id = bid}
       IN IF found = {}
          THEN /\ resp' = [route |-> "restore", status |-> 404, bid |-> bid]
               /\ UNCHANGED req
          ELSE LET snapshot == CHOOSE b \in found : TRUE
               IN /\ Cardinality(players) + Inserts(snapshot.data) <= MaxDocs
                  /\ req' = [req EXCEPT ![s] =
                       [op |-> "restore", pc |-> "loop", bid |-> bid,
                        todo |-> snapshot.data, count |-> 0]]
                  /\ resp' = NoResp
    /\ UNCHANGED <<now, players>>
    /\ Quiet

\* The document the upsert of restore inserts for payload entry p when no
\* document matches: the fields of p.
Restored(id, p) ==
    [PlayerDoc(id, p.productUserId, p.isBanned, p.banReason, p.banExpiresAt,
               p.banCount) EXCEPT !.firstSeen = p.firstSeen,
                                  !.playerId = p.playerId]

\* The update p of restore applied to the matched document old: the fields p
\* has are set, a field p lacks is left as it is.
Overwritten(old, p) ==
    [old EXCEPT !.productUserId = IF p.productUserId = Absent THEN @
                                  ELSE p.productUserId,
                !.playerId = IF p.playerId = Absent THEN @ ELSE p.playerId,
                !.isBanned = p.isBanned,
                !.banReason = p.banReason,
                !.banExpiresAt = p.banExpiresAt,
                !.banCount = p.banCount,
                !.firstSeen = p.firstSeen]

\* The restore loop with count++ placed before the identity check.
RestoreStepCountsAll(s) ==
    /\ draft \in SnapshotDrafts
    /\ req[s].op = "restore" /\ req[s].pc = "loop"
    /\ hit' = NoHit
    /\ IF req[s].todo = << >>
       THEN /\ resp' = [route |-> "restore", status |-> 200,
                        bid |-> req[s].bid, count |-> req[s].count]
            /\ req' = [req EXCEPT ![s] = Idle]
            /\ UNCHANGED players
       ELSE LET p == Head(req[s].todo)
                pid == IdentityOf(p)
                m == ByOr(pid)
            IN /\ resp' = NoResp
               /\ IF Falsy(pid)
                  THEN /\ req' = [req EXCEPT ![s].todo = Tail(@),
                                             ![s].count = @ + 1]
                       /\ UNCHANGED players
                  ELSE /\ players' = IF m = {}
                                     THEN players \cup {Restored(NewId, p)}
                                     ELSE Put(players, First(m),
                                              Overwritten(First(m), p))
                       /\ req' = [req EXCEPT ![s].todo = Tail(@),
                                             ![s].count = @ + 1]
    /\ UNCHANGED now
    /\ Quiet

\* One turn of `for (const p of players)`: an entry without identity is
\* skipped, any other is upserted with findOneAndUpdate({$or}, p, {upsert});
\* after the last entry the handler answers the count.
RestoreStep(s) ==
    /\ draft \in SnapshotDrafts
    /\ req[s].op = "restore" /\ req[s].pc = "loop"
    /\ hit' = NoHit
    /\ IF req[s].todo = << >>
       THEN /\ resp' = [route |-> "restore", status |-> 200,
                        bid |-> req[s].bid, count |-> req[s].count]
            /\ req' = [req EXCEPT ![s] = Idle]
            /\ UNCHANGED players
       ELSE LET p == Head(req[s].todo)
                pid == IdentityOf(p)
                m == ByOr(pid)
            IN /\ resp' = NoResp
               /\ IF Falsy(pid)
                  THEN /\ req' = [req EXCEPT ![s].todo = Tail(@)]
                       /\ UNCHANGED players
                  ELSE /\ players' = IF m = {}
                                     THEN players \cup {Restored(NewId, p)}
                                     ELSE Put(players, First(m),
                                              Overwritten(First(m), p))
                       /\ req' = [req EXCEPT ![s].todo = Tail(@),
                                             ![s].count = @ + 1]
    /\ UNCHANGED now
    /\ Quiet

----------------------------------------------------------------------------
(* part_007, lines 169-286: lockdown, hourly snapshots kept by count *)

\* verifyAdmin of the lockdown draft refuses every admin request.
Locked ==
    /\ draft = "part_007_lockdown"
    /\ resp' = [route |-> "admin", status |-> 403]
    /\ hit' = NoHit
    /\ UNCHANGED <<now, players, req>>
    /\ Quiet

\* The number of snapshots createSnapshot keeps.
SnapshotLimit == 30


\* allBackups.slice(n) of Backup.find().sort({timestamp: -1}): the snapshots
\* that have at least n newer ones.
Beyond(bs, n) ==
    {b \in bs : Cardinality({c \in bs : c.timestamp > b.timestamp}) >= n}

\* The hours the pass of slot r will have been in progress when the task
\* fires next.
Late(r) == (NextHour(now) - req[r].stamp) \div 60

\* The hourly task fires: createSnapshot() up to its second await, the read
\* of the players, the return when there are none, and new Backup({timestamp:
\* new Date(), ...}), built with its _id before its save() is awaited; the
\* _id is the number of the hour.  MaxLate bounds the hours a pass stays in
\* progress.
CronFind(s) ==
    /\ draft = "part_007_lockdown"
    /\ FreeSlot(s)
    /\ NextHour(now) <= MaxCronRuns * 60
    /\ \A r \in Slots : req[r].op = "snapshot" => Late(r) <= MaxLate
    /\ now' = NextHour(now)
    /\ IF players = {}
       THEN UNCHANGED req
       ELSE req' = [req EXCEPT ![s] =
              [op |-> "snapshot", pc |-> "save", data |-> InOrder(players),
               name |-> "SNAPSHOT [AUTO]", by |-> "cron",
               stamp |-> NextHour(now), id |-> NextHour(now) \div 60]]
    /\ resp' = NoResp
    /\ hit' = NoHit
    /\ UNCHANGED players
    /\ Quiet

\* await new Backup({...}).save()
CronSave(s) ==
    /\ draft = "part_007_lockdown"
    /\ req[s].op = "snapshot" /\ req[s].pc = "save"
    /\ LET data == req[s].data
       IN backups' = backups \cup
            {[id |-> req[s].id, timestamp |-> req[s].stamp,
              name |-> NameOr(req[s].name),
              totalPlayers |-> Len(data), bannedCount |-> BannedIn(data),
              cleanCount |-> Len(data) - BannedIn(data), data |-> data]}
    /\ req' = [req EXCEPT ![s] =
          [op |-> "snapshot", pc |-> "list", stamp |-> req[s].stamp]]
    /\ resp' = NoResp
    /\ hit' = NoHit
    /\ UNCHANGED <<draft, env, cron, now, players, tokenCache, sanctions>>

\* await Backup.find().sort({timestamp: -1}); with more than 30 snapshots the
\* pass goes on to delete those after the 30th, else it ends.
CronList(s) ==
    /\ draft = "part_007_lockdown"
    /\ req[s].op = "snapshot" /\ req[s].pc = "list"
    /\ req' = [req EXCEPT ![s] =
          IF Cardinality(backups) > SnapshotLimit
          THEN [op |-> "snapshot", pc |-> "delete", stamp |-> req[s].stamp,
                toDelete |-> {b.id : b \in Beyond(backups, SnapshotLimit)}]
          ELSE Idle]
    /\ resp' = NoResp
    /\ hit' = NoHit
    /\ UNCHANGED <<now, players>>
    /\ Quiet

\* await Backup.deleteMany({_id: {$in: toDelete}}), the end of the pass.
CronDelete(s) ==
    /\ draft = "part_007_lockdown"
    /\ req[s].op = "snapshot" /\ req[s].pc = "delete"
    /\ backups' = {b \in backups : b.id \notin req[s].toDelete}
    /\ req' = [req EXCEPT ![s] = Idle]
    /\ resp' = NoResp
    /\ hit' = NoHit
    /\ UNCHANGED <<draft, env, cron, now, players, tokenCache, sanctions>>

\* The hourly task fires and Player.find() of createSnapshot rejects: the
\* catch logs "Snapshot Failed" and the pass ends.
CronFindThrows ==
    /\ draft = "part_007_lockdown"
    /\ NextHour(now) <= MaxCronRuns * 60
    /\ \A r \in Slots : req[r].op = "snapshot" => Late(r) <= MaxLate
    /\ cron.errors < MaxErrors
    /\ now' = NextHour(now)
    /\ cron' = [cron EXCEPT !.errors = @ + 1]
    /\ resp' = NoResp
    /\ hit' = NoHit
    /\ UNCHANGED <<draft, env, players, backups, req, tokenCache, sanctions>>

\* save(), Backup.find() or deleteMany() of createSnapshot rejects: the catch
\* logs "Snapshot Failed" and the pass ends where it is.
CronThrows(s) ==
    /\ draft = "part_007_lockdown"
    /\ req[s].op = "snapshot"
    /\ cron.errors < MaxErrors
    /\ cron' = [cron EXCEPT !.errors = @ + 1]
    /\ req' = [req EXCEPT ![s] = Idle]
    /\ resp' = NoResp
    /\ hit' = NoHit
    /\ UNCHANGED <<draft, env, now, players, backups, tokenCache, sanctions>>

----------------------------------------------------------------------------
(* part_002: local bans with a reason, no expiry and no counter *)

\* POST /api/players/track: one findOneAndUpdate with upsert, then the answer.
TrackOnce(pid) ==
    /\ draft = "part_002"
    /\ Room
    /\ hit' = NoHit
    /\ IF Falsy(pid)
       THEN /\ resp' = TrackResp(400, pid, FALSE)
            /\ UNCHANGED players
       ELSE LET m == ByPid(pid)
                player == IF m = {} THEN DefaultDoc(NewId, pid) ELSE First(m)
            IN /\ players' = players \cup {player}
               /\ resp' = TrackResp(200, pid, player.isBanned)
    /\ UNCHANGED <<now, req>>
    /\ Quiet

\* POST /api/ban: upsert of {isBanned: true, banReason: reason || "Banned by Admin"}.
BanLocal(pid, reason) ==
    /\ draft = "part_002"
    /\ hit' = NoHit
    /\ IF Falsy(pid)
       THEN /\ resp' = [route |-> "ban", status |-> 400]
            /\ UNCHANGED players
       ELSE LET m == ByPid(pid)
                why == ReasonOr(reason, "Banned by Admin")
            IN /\ m = {} => Room
               /\ players' =
                    IF m = {}
                    THEN players \cup {PlayerDoc(NewId, pid, TRUE, why, NULL, 0)}
                    ELSE Put(players, First(m),
                             [First(m) EXCEPT !.isBanned = TRUE, !.banReason = why])
               /\ resp' = AdminOk
    /\ UNCHANGED <<now, req>>
    /\ Quiet

\* POST /api/unban: {isBanned: false, banReason: ""}, no upsert.
UnbanLocal(pid) ==
    /\ draft = "part_002"
    /\ IF Falsy(pid)
       THEN /\ resp' = [route |-> "unban", status |-> 400, pid |-> pid]
            /\ hit' = NoHit
            /\ UNCHANGED players
       ELSE LET m == ByPid(pid)
            IN /\ players' =
                    IF m = {} THEN players
                    ELSE Put(players, First(m),
                             [First(m) EXCEPT !.isBanned = FALSE, !.banReason = ""])
               /\ hit' = Hit("unban", WasBanned(m))
               /\ resp' = UnbanOk(pid)
    /\ UNCHANGED <<now, req>>
    /\ Quiet

----------------------------------------------------------------------------
(* part_003, part_007: bans mirrored to the external sanctions authority *)

Still == UNCHANGED <<draft, env, cron, backups>>

\* getAccessToken(): the cached token is served while
\* tokenCache.token && Date.now() < tokenCache.expiresAt; the diagnostic draft
\* and server.js:224 keep no cache.
CacheFresh ==
    /\ draft \in CachingDrafts
    /\ tokenCache.token # NULL
    /\ now < tokenCache.expiresAt

\* The safety margin of the cache: 300 s, in minutes.
TokenMargin == 5

\* tokenCache after a token answer with expires_in e at time t.
CachedNoMargin(t, e) == [token |-> <<t>>, expiresAt |-> t + e]
Cached(t, e) == [token |-> <<t>>, expiresAt |-> t + (e - TokenMargin)]

\* The status of the catch block of POST /api/sanctions/create.
CreateFailure == IF draft = "part_007_diagnostic" THEN 400 ELSE 500

CreateResp(status, pid, accepted) ==
    [route |-> "create", status |-> status, success |-> status = 200,
     pid |-> pid, accepted |-> accepted]

RemoveResp(status) ==
    [route |-> "remove", status |-> status, success |-> status = 200]

\* A productUserId as Epic issues it, 32 hexadecimal digits, and the same
\* written with dashes.
HexId == "0123456789abcdef0123456789abcdef"
DashedId == "01234567-89ab-cdef-0123-456789abcdef"

\* String(x).replace(/[^a-fA-F0-9]/g, "") for the identities that occur here.
HexOnly(x) ==
    IF x = DashedId THEN HexId
    ELSE IF x = " " THEN ""
    ELSE IF x = " abc123" THEN "abc123"
    ELSE x

\* The identity check of POST /api/sanctions/create; part_003 and
\* server.js:618 have none; server.js:445 wants 32 hexadecimal digits.
MissingId(pid) ==
    IF draft = "server.js_hex" THEN Falsy(pid) \/ Len(HexOnly(pid)) # 32
    ELSE draft \notin PlainDrafts /\ (Falsy(pid) \/ Trim(pid) = "")

\* cleanId / finalId: the identity sent to the authority and written locally.
CleanId(pid) ==
    IF draft \in PlainDrafts THEN pid
    ELSE IF draft = "server.js_hex" THEN HexOnly(pid)
    ELSE Trim(pid)

\* POST /api/players/track: one findOneAndUpdate with upsert on the unique
\* productUserId, answered with { success: true }.
TrackPlain(pid) ==
    /\ draft \in MirrorDrafts \ {"server.js_update"}
    /\ Room
    /\ IF Falsy(pid)
       THEN /\ resp' = [route |-> "track", status |-> 400, pid |-> pid]
            /\ UNCHANGED players
       ELSE /\ players' = IF ByPid(pid) = {}
                          THEN players \cup {SanctionDoc(NewId, pid, FALSE)}
                          ELSE players
            /\ resp' = [route |-> "track", status |-> 200, pid |-> pid]
    /\ hit' = NoHit
    /\ UNCHANGED <<now, req, tokenCache, sanctions>>
    /\ Still

\* server.js:588: let player = await Player.findOne({ productUserId }).
TrackFindOne(s, pid) ==
    /\ draft = "server.js_update"
    /\ FreeSlot(s) /\ Room
    /\ IF Falsy(pid)
       THEN /\ resp' = [route |-> "track", status |-> 400, pid |-> pid]
            /\ UNCHANGED req
       ELSE /\ req' = [req EXCEPT ![s] =
                 [op |-> "track", pc |-> "create", pid |-> pid,
                  isNew |-> ByPid(pid) = {}]]
            /\ resp' = NoResp
    /\ hit' = NoHit
    /\ UNCHANGED <<now, players, tokenCache, sanctions>>
    /\ Still

\* await player.save(), which writes lastSeen and the names, or await
\* Player.create({...}), which the unique index rejects when the identity
\* has a record by now: the catch answers 500.
TrackCreate(s) ==
    /\ draft = "server.js_update"
    /\ req[s].op = "track" /\ req[s].pc = "create"
    /\ IF req[s].isNew /\ ByPid(req[s].pid) # {}
       THEN /\ resp' = [route |-> "track", status |-> 500, pid |-> req[s].pid]
            /\ UNCHANGED players
       ELSE /\ players' = IF req[s].isNew
                          THEN players \cup {SanctionDoc(NewId, req[s].pid, FALSE)}
                          ELSE players
            /\ resp' = [route |-> "track", status |-> 200, pid |-> req[s].pid]
    /\ req' = [req EXCEPT ![s] = Idle]
    /\ hit' = NoHit
    /\ UNCHANGED <<now, tokenCache, sanctions>>
    /\ Still

\* GET /api/players.
ListPlain ==
    /\ draft \in MirrorDrafts
    /\ resp' = [route |-> "list", status |-> 200, players |-> players]
    /\ hit' = NoHit
    /\ UNCHANGED <<now, players, req, tokenCache, sanctions>>
    /\ Still

\* POST /api/sanctions/create up to its first await: the identity check, then
\* getAccessToken() on a fresh cache followed by the sanction POST, or the
\* token request.
CreateBegin(s, pid) ==
    /\ draft \in MirrorDrafts
    /\ FreeSlot(s) /\ Room
    /\ IF MissingId(pid)
       THEN /\ resp' = CreateResp(400, pid, FALSE)
            /\ UNCHANGED req
       ELSE /\ req' = [req EXCEPT ![s] =
                 [op |-> "create", raw |-> pid, pid |-> CleanId(pid),
                  accepted |-> FALSE, cached |-> CacheFresh,
                  pc |-> IF CacheFresh THEN "post" ELSE "token"]]
            /\ resp' = NoResp
    /\ hit' = NoHit
    /\ UNCHANGED <<now, players, tokenCache, sanctions>>
    /\ Still

\* What POST /api/sanctions/remove does once it holds a token: the sanction
\* delete (part_003: always; else if a referenceId was sent), then the local
\* update if a productUserId was sent, then the answer.
RemoveAfterToken(r) ==
    IF draft \in PlainDrafts \/ ~Falsy(r.ref) THEN "delete"
    ELSE IF ~Falsy(r.pid) THEN "save"
    ELSE "done"

RemoveAfterDelete(r) == IF ~Falsy(r.pid) THEN "save" ELSE "done"

\* The handler in slot s goes on to stage pc, or answers success when nothing
\* is left to do.
RemoveGoes(s, pc) ==
    IF pc = "done"
    THEN /\ req' = [req EXCEPT ![s] = Idle]
         /\ resp' = RemoveResp(200)
    ELSE /\ req' = [req EXCEPT ![s].pc = pc,
                               ![s].called = @ \/ pc = "delete"]
         /\ resp' = NoResp

\* POST /api/sanctions/remove up to its first await.  The request keeps
\* whether getAccessToken() answered it from the cache, and whether it has
\* issued the sanction DELETE.
RemoveBegin(s, pid, ref) ==
    /\ draft \in MirrorDrafts
    /\ FreeSlot(s)
    /\ LET r == [op |-> "remove", pid |-> pid, ref |-> ref, pc |-> "token",
                 cached |-> CacheFresh, called |-> FALSE]
           pc == IF CacheFresh THEN RemoveAfterToken(r) ELSE "token"
       IN IF pc = "done"
          THEN /\ resp' = RemoveResp(200)
               /\ UNCHANGED req
          ELSE /\ req' = [req EXCEPT ![s] =
                    [r EXCEPT !.pc = pc, !.called = pc = "delete"]]
               /\ resp' = NoResp
    /\ hit' = NoHit
    /\ UNCHANGED <<now, players, tokenCache, sanctions>>
    /\ Still

\* The token endpoint answers with a token valid for e minutes: the caching
\* drafts store it, and the handler goes on.
TokenGranted(s, e) ==
    /\ draft \in MirrorDrafts
    /\ req[s].op \in {"create", "remove"} /\ req[s].pc = "token"
    /\ tokenCache' = IF draft \in CachingDrafts THEN Cached(now, e)
                     ELSE tokenCache
    /\ IF req[s].op = "create"
       THEN /\ req' = [req EXCEPT ![s].pc = "post"]
            /\ resp' = NoResp
       ELSE RemoveGoes(s, RemoveAfterToken(req[s]))
    /\ hit' = NoHit
    /\ UNCHANGED <<now, players, sanctions>>
    /\ Still

\* A catch block of getAccessToken that drops the cached token.
TokenRefusedDropsCache(s) ==
    /\ draft \in MirrorDrafts
    /\ req[s].op \in {"create", "remove"} /\ req[s].pc = "token"
    /\ resp' = IF req[s].op = "create"
               THEN CreateResp(CreateFailure, req[s].pid, FALSE)
               ELSE RemoveResp(500)
    /\ req' = [req EXCEPT ![s] = Idle]
    /\ hit' = NoHit
    /\ tokenCache' = [token |-> NULL, expiresAt |-> 0]
    /\ UNCHANGED <<now, players, sanctions>>
    /\ Still
\* The token request fails: getAccessToken throws and the handler's catch
\* block answers.
TokenRefused(s) ==
    /\ draft \in MirrorDrafts
    /\ req[s].op \in {"create", "remove"} /\ req[s].pc = "token"
    /\ resp' = IF req[s].op = "create"
               THEN CreateResp(CreateFailure, req[s].pid, FALSE)
               ELSE RemoveResp(500)
    /\ req' = [req EXCEPT ![s] = Idle]
    /\ hit' = NoHit
    /\ UNCHANGED <<now, players, tokenCache, sanctions>>
    /\ Still

\* Two orderings POST /api/sanctions/create does not have: one goes on to the
\* local write whatever the authority answered, one writes the local flag
\* while the authority's answer is still being handled.
CreatePostSwallow(s, ok) ==
    /\ draft \in MirrorDrafts
    /\ req[s].op = "create" /\ req[s].pc = "post"
    /\ sanctions' = IF ok THEN sanctions \cup {req[s].pid} ELSE sanctions
    /\ req' = [req EXCEPT ![s].pc = "save", ![s].accepted = ok]
    /\ resp' = NoResp
    /\ hit' = NoHit
    /\ UNCHANGED <<now, players, tokenCache>>
    /\ Still

CreatePostWriteFirst(s, ok) ==
    /\ draft \in MirrorDrafts
    /\ req[s].op = "create" /\ req[s].pc = "post"
    /\ LET m == ByPid(req[s].pid)
       IN players' = IF m = {}
                     THEN players \cup {SanctionDoc(NewId, req[s].pid, TRUE)}
                     ELSE Put(players, First(m),
                              [First(m) EXCEPT !.isBanned = TRUE])
    /\ IF ok
       THEN /\ sanctions' = sanctions \cup {req[s].pid}
            /\ req' = [req EXCEPT ![s].pc = "save", ![s].accepted = TRUE]
            /\ resp' = NoResp
       ELSE /\ resp' = CreateResp(CreateFailure, req[s].pid, FALSE)
            /\ req' = [req EXCEPT ![s] = Idle]
            /\ UNCHANGED sanctions
    /\ hit' = NoHit
    /\ UNCHANGED <<now, tokenCache>>
    /\ Still

\* The authority answers the sanction POST: accepted, and the handler goes on
\* to the local write; or refused (unreachable, payload rejected), and the
\* catch block answers.
CreatePost(s, ok) ==
    /\ draft \in MirrorDrafts
    /\ req[s].op = "create" /\ req[s].pc = "post"
    /\ IF ok
       THEN /\ sanctions' = sanctions \cup {req[s].pid}
            /\ req' = [req EXCEPT ![s].pc = "save", ![s].accepted = TRUE]
            /\ resp' = NoResp
       ELSE /\ resp' = CreateResp(CreateFailure, req[s].pid, FALSE)
            /\ req' = [req EXCEPT ![s] = Idle]
            /\ UNCHANGED sanctions
    /\ hit' = NoHit
    /\ UNCHANGED <<now, players, tokenCache>>
    /\ Still

\* The document an upsert inserts for the identity when none matches;
\* server.js:633 passes no { upsert } and inserts none.
Upserted(pid) ==
    IF draft = "server.js_update" THEN {}
    ELSE {SanctionDoc(NewId, pid, TRUE)}

\* Player.findOneAndUpdate({ productUserId }, { isBanned: true }, { upsert })
\* and the answer { success: true }.
CreateSave(s) ==
    /\ draft \in MirrorDrafts
    /\ req[s].op = "create" /\ req[s].pc = "save"
    /\ LET m == ByPid(req[s].pid)
       IN players' = IF m = {}
                     THEN players \cup Upserted(req[s].pid)
                     ELSE Put(players, First(m),
                              [First(m) EXCEPT !.isBanned = TRUE])
    /\ resp' = CreateResp(200, req[s].pid, req[s].accepted)
    /\ req' = [req EXCEPT ![s] = Idle]
    /\ hit' = NoHit
    /\ UNCHANGED <<now, tokenCache, sanctions>>
    /\ Still

\* The authority answers the sanction DELETE: done, or refused.
RemoveDelete(s, ok) ==
    /\ draft \in MirrorDrafts
    /\ req[s].op = "remove" /\ req[s].pc = "delete"
    /\ IF ok
       THEN /\ sanctions' = sanctions \ {req[s].ref}
            /\ RemoveGoes(s, RemoveAfterDelete(req[s]))
       ELSE /\ resp' = RemoveResp(500)
            /\ req' = [req EXCEPT ![s] = Idle]
            /\ UNCHANGED sanctions
    /\ hit' = NoHit
    /\ UNCHANGED <<now, players, tokenCache>>
    /\ Still

\* Player.findOneAndUpdate({ productUserId }, { isBanned: false }) and the
\* answer.
RemoveSave(s) ==
    /\ draft \in MirrorDrafts
    /\ req[s].op = "remove" /\ req[s].pc = "save"
    /\ LET m == ByPid(req[s].pid)
       IN players' = IF m = {} THEN players
                     ELSE Put(players, First(m),
                              [First(m) EXCEPT !.isBanned = FALSE])
    /\ resp' = RemoveResp(200)
    /\ req' = [req EXCEPT ![s] = Idle]
    /\ hit' = NoHit
    /\ UNCHANGED <<now, tokenCache, sanctions>>
    /\ Still

----------------------------------------------------------------------------

\* Every route but the track route of part_005.
Routes ==
    \/ Tick
    \/ \E s \in Slots, pid \in TrackIds : TrackExpire(s, pid)
    \/ \E s \in Slots : TrackUpsert(s)
    \/ \E s \in Slots : TrackFind(s)
    \/ \E s \in Slots : TrackSave(s)
    \/ \E s \in Slots : ListExpire(s)
    \/ \E s \in Slots : ListFind(s)
    \/ \E pid \in BanIds, reason \in ReasonInputs, dur \in DurationInputs :
          Ban(pid, reason, dur)
    \/ \E pid \in BanIds, reason \in ReasonInputs, dur \in DurationInputs :
          BanOr(pid, reason, dur)
    \/ \E pid \in AdminIds : Unban(pid)
    \/ \E pid \in AdminIds : Delete(pid)
    \/ \E s \in Slots : TrackBackfill(s)
    \/ List
    \/ \E pid \in TrackIds : TrackOnce(pid)
    \/ \E pid \in BanIds, reason \in ReasonInputs : BanLocal(pid, reason)
    \/ \E pid \in AdminIds : UnbanLocal(pid)

Next ==
    \/ Routes
    \/ \E s \in Slots, pid \in TrackIds : TrackOr(s, pid)

\* The player routes of the four ban drafts; no backup route is called.
Spec == Init /\ [][Next]_vars

\* The identities tracked while the backup routes are in use, and the
\* identity, reasons and durations the admin sends.
BackupTrackIds == {"", "abc123"}
BackupIds == {"abc123"}
BackupReasons == {Absent, "cheating"}
BackupDurations == {NULL, <<2>>}

\* The player routes while the backup routes are in use: part_005 with the
\* inputs above, the other ban drafts as in Routes.
BackupRoutes ==
    \/ draft # "part_005" /\ Routes
    \/ \E s \in Slots, pid \in BackupTrackIds : TrackOr(s, pid)
    \/ \E s \in Slots : TrackBackfill(s)
    \/ \E pid \in BackupIds, reason \in BackupReasons, dur \in BackupDurations :
          BanOr(pid, reason, dur)
    \/ draft = "part_005" /\ \E pid \in BackupIds : Unban(pid)
    \/ draft = "part_005" /\ \E pid \in BackupIds : Delete(pid)

NextBackup ==
    \/ BackupRoutes
    \/ /\ SnapshotRoom(MaxBackups)
       /\ \E s \in Slots : SnapshotFind(s, Absent)
    \/ \E s \in Slots : SnapshotSave(s)
    \/ \E s \in Slots : SnapshotPrune(s)
    \/ \E bid \in 1 .. MaxBackups : BackupDelete(bid)
    \/ \E s \in Slots, bid \in 1 .. MaxBackups : Restore(s, bid)
    \/ \E s \in Slots : RestoreStep(s)

\* The player routes with the backup routes of part_005.
SpecBackup == Init /\ [][NextBackup]_vars

\* A restore is in flight.
Restoring == \E s \in Slots : req[s].op = "restore"

\* What the client is taken to do around a restore when a claim speaks of
\* the restore by itself: it sends the request when every earlier one has
\* been answered, and sends no other before the restore has answered.
RestoreAlone ==
    /\ (~Restoring /\ Restoring') => Alone
    /\ Restoring => \E s \in Slots : req[s].op = "restore" /\ req'[s] # req[s]

\* The same, the restore being sent when the player store is empty.
RestoreIntoEmpty ==
    /\ RestoreAlone
    /\ (~Restoring /\ Restoring') => players = {}

\* The player and backup routes with every restore run by itself on an
\* empty player store.
SpecRoundTrip == Init /\ [][NextBackup /\ RestoreIntoEmpty]_vars

\* The record of a player who was tracked before the process was started.
TrackedDoc ==
    [id |-> 1, at |-> 1, productUserId |-> "abc123", playerId |-> Absent,
     isBanned |-> FALSE, banReason |-> "", banExpiresAt |-> NULL,
     banCount |-> 0, firstSeen |-> <<0>>]

\* The lockdown draft is started on a database that holds one player and no
\* snapshot.
InitRetention ==
    /\ draft = "part_007_lockdown"
    /\ Blank
    /\ players = {TrackedDoc}
    /\ env = [ADMIN_PASSWORD |-> Secret]

\* The identities tracked under lockdown: an empty one and a valid one.
LockdownTrackIds == {"", "abc123"}

NextRetention ==
    \/ Tick
    \/ \E s \in Slots, pid \in LockdownTrackIds : TrackOr(s, pid)
    \/ Locked
    \/ \E s \in Slots : CronFind(s)
    \/ \E s \in Slots : CronSave(s)
    \/ \E s \in Slots : CronList(s)
    \/ \E s \in Slots : CronDelete(s)
    \/ CronFindThrows
    \/ \E s \in Slots : CronThrows(s)

\* The lockdown draft: tracking, refused admin requests, the hourly task.
SpecRetention == InitRetention /\ [][NextRetention]_vars

InitArchive == draft \in SnapshotDrafts /\ InitStore

\* The identity, the ban reason and the duration used while snapshots are
\* named.
ArchiveIds == {"abc123"}
ArchiveReasons == {"cheating"}
ArchiveDurations == {NULL}

NextArchive ==
    \/ Tick
    \/ \E s \in Slots, pid \in ArchiveIds : TrackOr(s, pid)
    \/ \E s \in Slots : TrackBackfill(s)
    \/ \E pid \in ArchiveIds, reason \in ArchiveReasons, dur \in ArchiveDurations :
          BanOr(pid, reason, dur)
    \/ \E pid \in ArchiveIds : Unban(pid)
    \/ \E pid \in ArchiveIds : Delete(pid)
    \/ /\ SnapshotRoom(MaxBackups)
       /\ \E s \in Slots, customName \in NameInputs : SnapshotFind(s, customName)
    \/ \E s \in Slots : SnapshotSave(s)
    \/ \E s \in Slots : SnapshotPrune(s)
    \/ \E bid \in 1 .. MaxBackups : BackupDelete(bid)
    \/ \E s \in Slots, bid \in 1 .. MaxBackups : Restore(s, bid)
    \/ \E s \in Slots : RestoreStep(s)

\* part_005 and server.js:1-184 with one identity; part_005 names its
\* snapshots.
SpecArchive == InitArchive /\ [][NextArchive]_vars

InitImmutable == draft = "part_005" /\ InitStore

\* The handlers in flight while snapshots are compared, and a downtime of
\* the process longer than the retention window.
MaxArchiveInFlight == 1
LongDowntime == RetentionMinutes + 1

NextImmutable ==
    \/ Tick
    \/ \E s \in 1 .. MaxArchiveInFlight, pid \in ArchiveIds : TrackOr(s, pid)
    \/ \E s \in Slots : TrackBackfill(s)
    \/ \E pid \in ArchiveIds, reason \in ArchiveReasons, dur \in ArchiveDurations :
          BanOr(pid, reason, dur)
    \/ \E pid \in ArchiveIds : Unban(pid)
    \/ \E pid \in ArchiveIds : Delete(pid)
    \/ /\ SnapshotRoom(MaxBackups + 1)
       /\ \E s \in 1 .. MaxArchiveInFlight, customName \in NameInputs :
             SnapshotFind(s, customName)
    \/ \E s \in Slots : SnapshotSave(s)
    \/ \E s \in Slots : SnapshotPrune(s)
    \/ \E bid \in 1 .. (MaxBackups + 1) : BackupDelete(bid)
    \/ \E s \in 1 .. MaxArchiveInFlight, bid \in 1 .. (MaxBackups + 1) :
          Restore(s, bid)
    \/ \E s \in Slots : RestoreStep(s)
    \/ Restart(LongDowntime)

\* part_005 with one identity and room for a second snapshot beside a
\* stored one, over days: snapshots are taken, pruned, deleted and restored
\* while another is stored.
SpecImmutable == InitImmutable /\ [][NextImmutable]_vars

InitAuth ==
    /\ draft \in BanDrafts \cup SanctionDrafts \cup {"part_007_lockdown"}
    /\ Fresh
    /\ env \in {[ADMIN_PASSWORD |-> p] : p \in {Absent, Secret}}

\* The identity, reason and duration used behind the admin check.
AuthIds == {"abc123"}
AuthReasons == {"cheating"}
AuthDurations == {NULL}

\* The entry of an admin request with this header, in any draft.
AdminRequest(h) ==
    \/ Guarded(h, \E pid \in AuthIds, reason \in AuthReasons, dur \in AuthDurations :
                     Ban(pid, reason, dur))
    \/ Guarded(h, \E pid \in AuthIds, reason \in AuthReasons, dur \in AuthDurations :
                     BanOr(pid, reason, dur))
    \/ Guarded(h, \E pid \in AuthIds, reason \in AuthReasons : BanLocal(pid, reason))
    \/ Guarded(h, \E pid \in AuthIds : Unban(pid))
    \/ Guarded(h, \E pid \in AuthIds : UnbanLocal(pid))
    \/ Guarded(h, \E pid \in AuthIds : Delete(pid))
    \/ Guarded(h, \E s \in Slots : ListExpire(s))
    \/ Guarded(h, List)
    \/ Guarded(h, ListPlain)
    \/ Guarded(h, \E s \in Slots, pid \in AuthIds : CreateBegin(s, pid))
    \/ Guarded(h, \E s \in Slots, pid \in AuthIds, ref \in ReferenceIds :
                     RemoveBegin(s, pid, ref))
    \/ Guarded(h, /\ SnapshotRoom(MaxBackups)
                  /\ \E s \in Slots : SnapshotFind(s, Absent))
    \/ Guarded(h, \E s \in Slots, bid \in 1 .. MaxBackups : Restore(s, bid))
    \/ Guarded(h, \E bid \in 1 .. MaxBackups : BackupDelete(bid))

NextAuth ==
    \/ \E s \in Slots, pid \in AuthIds : TrackExpire(s, pid)
    \/ \E s \in Slots : TrackUpsert(s)
    \/ \E s \in Slots : TrackFind(s)
    \/ \E s \in Slots : TrackSave(s)
    \/ \E s \in Slots, pid \in AuthIds : TrackOr(s, pid)
    \/ \E s \in Slots : TrackBackfill(s)
    \/ \E pid \in AuthIds : TrackOnce(pid)
    \/ \E pid \in AuthIds : TrackPlain(pid)
    \/ \E h \in HeaderInputs : AdminRequest(h)
    \/ \E s \in Slots : ListFind(s)
    \/ \E s \in Slots, e \in ExpiresInInputs : TokenGranted(s, e)
    \/ \E s \in Slots : TokenRefused(s)
    \/ \E s \in Slots, ok \in BOOLEAN : CreatePost(s, ok)
    \/ \E s \in Slots : CreateSave(s)
    \/ \E s \in Slots, ok \in BOOLEAN : RemoveDelete(s, ok)
    \/ \E s \in Slots : RemoveSave(s)
    \/ \E s \in Slots : SnapshotSave(s)
    \/ \E s \in Slots : SnapshotPrune(s)
    \/ \E s \in Slots : RestoreStep(s)

\* Every draft with ADMIN_PASSWORD set or not set, requests with and without
\* the header.
SpecAuth == InitAuth /\ [][NextAuth]_vars

InitSchedule == draft \in SnapshotDrafts \cup BotDrafts /\ InitStore

\* The identity tracked while the schedule runs.
ScheduleTrackIds == {"abc123"}

NextSchedule ==
    \/ \E s \in Slots, pid \in ScheduleTrackIds : TrackOr(s, pid)
    \/ \E s \in Slots : TrackBackfill(s)
    \/ StartBackupSchedule
    \/ Restart(0)
    \/ Interval
    \/ SnapshotRoom(MaxBackups + 1) /\ \E s \in Slots : ScheduledFind(s)
    \/ /\ SnapshotRoom(MaxBackups + 1)
       /\ \E s \in Slots, customName \in NameInputs : SnapshotFind(s, customName)
    \/ \E by \in {"route", "cron"} : SnapshotFindThrows(by)
    \/ \E s \in Slots : SnapshotSave(s)
    \/ \E s \in Slots : SnapshotPrune(s)
    \/ \E s \in Slots : SnapshotThrows(s)
    \/ \E s \in Slots : BotReady(s)
    \/ \E s \in Slots : BotRun(s)
    \/ \E s \in Slots : ForceTestMessage(s)
    \/ \E s \in Slots : BotFetch(s)
    \/ \E s \in Slots : BotFind(s)
    \/ \E s \in Slots : BotSend(s)
    \/ \E s \in Slots, survives \in BOOLEAN : BotThrows(s, survives)

\* The snapshot schedule of part_005 and server.js with the create route and
\* failing database calls, and the backup schedule of the bot drafts.
SpecSchedule == InitSchedule /\ [][NextSchedule]_vars

InitExpiry == draft \in ExpiryDrafts /\ InitStore

\* The identity tracked and the identities banned while the sweep is
\* observed; bans without end, for one minute and for two minutes.
ExpiryTrackIds == {"abc123"}
ExpiryBanIds == {"abc123", "xyz789"}
ExpiryReasons == {"cheating"}
ExpiryDurations == {NULL, <<2>>, <<4>>}

NextExpiry ==
    \/ Tick
    \/ \E s \in Slots, pid \in ExpiryTrackIds : TrackExpire(s, pid)
    \/ \E s \in Slots : TrackUpsert(s)
    \/ \E s \in Slots : TrackFind(s)
    \/ \E s \in Slots : TrackSave(s)
    \/ \E s \in Slots : ListExpire(s)
    \/ \E s \in Slots : ListFind(s)
    \/ \E pid \in ExpiryBanIds, reason \in ExpiryReasons, dur \in ExpiryDurations :
          Ban(pid, reason, dur)
    \/ \E pid \in ExpiryBanIds : Unban(pid)

\* part_004 and part_006 with two banned identities.
SpecExpiry == InitExpiry /\ [][NextExpiry]_vars
InitMirror == draft \in MirrorDrafts \ {"part_007_diagnostic"} /\ InitStore

\* The identities tracked and sanctioned: a short one with and without a
\* leading blank, and for server.js:350-527 one of 32 hexadecimal digits
\* with and without dashes.
MirrorIds ==
    IF draft = "server.js_hex" THEN {"abc123", HexId, DashedId}
    ELSE {"abc123", " abc123"}

NextMirror ==
    \/ \E pid \in MirrorIds : TrackPlain(pid)
    \/ \E s \in Slots, pid \in MirrorIds : TrackFindOne(s, pid)
    \/ \E s \in Slots : TrackCreate(s)
    \/ \E s \in Slots, pid \in MirrorIds : CreateBegin(s, pid)
    \/ \E s \in Slots, e \in ExpiresInInputs : TokenGranted(s, e)
    \/ \E s \in Slots : TokenRefused(s)
    \/ \E s \in Slots, ok \in BOOLEAN : CreatePost(s, ok)
    \/ \E s \in Slots : CreateSave(s)

\* The track and create routes of the sanctions drafts, server.js included.
SpecMirror == InitMirror /\ [][NextMirror]_vars
\* The identity that is tracked, and a record of it from before
\* productUserId existed: it has playerId only.
LegacyIds == {"abc123"}
LegacyDoc ==
    [id |-> 1, at |-> 1, productUserId |-> Absent, playerId |-> "abc123",
     isBanned |-> FALSE, banReason |-> "", banExpiresAt |-> NULL,
     banCount |-> 0, firstSeen |-> <<0>>]

InitLegacy ==
    /\ draft \in {"part_005", "server.js"}
    /\ Blank
    /\ players \in {{}, {LegacyDoc}}
    /\ env = [ADMIN_PASSWORD |-> Secret]

NextLegacy ==
    \/ Tick
    \/ \E s \in Slots, pid \in LegacyIds : TrackOr(s, pid)
    \/ \E s \in Slots : TrackBackfill(s)
    \/ \E pid \in LegacyIds, reason \in ArchiveReasons, dur \in BackupDurations :
          BanOr(pid, reason, dur)
    \/ \E pid \in LegacyIds : Unban(pid)
    \/ \E pid \in LegacyIds : Delete(pid)

\* part_005 and server.js:1-184 on a store that may hold a legacy record.
SpecLegacy == InitLegacy /\ [][NextLegacy]_vars
\* The identities tracked and banned while a snapshot of one of them is
\* restored.
RestoreIds == {"abc123", "xyz789"}

NextRestore ==
    \/ \E s \in Slots, pid \in RestoreIds : TrackOr(s, pid)
    \/ \E s \in Slots : TrackBackfill(s)
    \/ \E pid \in RestoreIds, reason \in ArchiveReasons, dur \in ArchiveDurations :
          BanOr(pid, reason, dur)
    \/ \E pid \in RestoreIds : Unban(pid)
    \/ \E pid \in RestoreIds : Delete(pid)
    \/ /\ SnapshotRoom(MaxBackups)
       /\ \E s \in Slots : SnapshotFind(s, Absent)
    \/ \E s \in Slots : SnapshotSave(s)
    \/ \E s \in Slots : SnapshotPrune(s)
    \/ \E bid \in 1 .. MaxBackups : BackupDelete(bid)
    \/ \E s \in Slots, bid \in 1 .. MaxBackups : RestoreOver(s, bid)
    \/ \E s \in Slots : RestoreStep(s)

\* part_005 and server.js:1-184 with two identities: snapshots restored into
\* a store that holds records the snapshot does not, every restore run by
\* itself.
SpecRestore == InitArchive /\ [][NextRestore /\ RestoreAlone]_vars
\* The drafts of the two retention policies: by age and by count.
PruningDrafts == {"part_005", "part_007_lockdown"}

InitPruning == (draft = "part_005" /\ InitStore) \/ InitRetention

\* The identity tracked while snapshots are pruned.
PruningIds == {"abc123"}

\* The downtimes of the process: none, and the retention window.
Downtimes == {0, RetentionMinutes}

NextPruning ==
    \/ \E down \in Downtimes : Restart(down)
    \/ \E s \in Slots, pid \in PruningIds : TrackOr(s, pid)
    \/ \E s \in Slots : TrackBackfill(s)
    \/ StartBackupSchedule
    \/ Interval
    \/ SnapshotRoom(MaxBackups + 1) /\ \E s \in Slots : ScheduledFind(s)
    \/ /\ SnapshotRoom(MaxBackups + 1)
       /\ \E s \in Slots : SnapshotFind(s, Absent)
    \/ \E s \in Slots : SnapshotSave(s)
    \/ \E s \in Slots : SnapshotPrune(s)
    \/ \E s \in Slots : CronFind(s)
    \/ \E s \in Slots : CronSave(s)
    \/ \E s \in Slots : CronList(s)
    \/ \E s \in Slots : CronDelete(s)

\* createSnapshot of part_005, called by the route and by the minute task,
\* over restarts and a day of downtime, and of the lockdown draft over more
\* than thirty hourly passes.  The clock moves with the schedule: by Interval
\* in part_005, by CronFind in the lockdown draft, and by a restart.
SpecPruning == InitPruning /\ [][NextPruning]_vars
InitSanctions == draft \in SanctionDrafts /\ InitStore

NextSanctions ==
    \/ Tick
    \/ \E pid \in SanctionIds : TrackPlain(pid)
    \/ ListPlain
    \/ \E s \in Slots, pid \in SanctionIds : CreateBegin(s, pid)
    \/ \E s \in Slots, pid \in RemoveIds, ref \in ReferenceIds :
          RemoveBegin(s, pid, ref)
    \/ \E s \in Slots, e \in ExpiresInInputs : TokenGranted(s, e)
    \/ \E s \in Slots : TokenRefused(s)
    \/ \E s \in Slots, ok \in BOOLEAN : CreatePost(s, ok)
    \/ \E s \in Slots : CreateSave(s)
    \/ \E s \in Slots, ok \in BOOLEAN : RemoveDelete(s, ok)
    \/ \E s \in Slots : RemoveSave(s)

\* The sanctions drafts.
SpecSanctions == InitSanctions /\ [][NextSanctions]_vars

\* Every draft with its player and sanction routes.
SpecAll == (Init \/ InitSanctions) /\ [][Next \/ NextSanctions]_vars

----------------------------------------------------------------------------
(* Claims *)

\* banExpiresAt of p is set and not later than t.
PastExpiry(p, t) == p.banExpiresAt # NULL /\ p.banExpiresAt[1] <= t

\* C1: lazy expiry as the callers see it.  No GET /api/players response
\* lists as banned a record whose banExpiresAt has passed when the response
\* is produced, and no POST /api/players/track response reports isBanned for
\* an identity whose record's banExpiresAt has passed.
C1_NoResponseShowsPastBan ==
    /\ (resp.route = "list" /\ resp.status = 200)
          => \A p \in resp.players : ~(p.isBanned /\ PastExpiry(p, now))
    /\ (resp.route = "track" /\ resp.status = 200 /\ resp.isBanned)
          => \A p \in ByPid(resp.pid) : ~(p.isBanned /\ PastExpiry(p, now))

\* C2: once no track call is in flight any more, the store holds at most one
\* record per identity, and exactly one for the identity a track call has
\* just answered with success.
C2_OneRecordPerIdentity ==
    Alone =>
      /\ \A pid \in TrackIds \ {Absent} : Cardinality(ByPid(pid)) <= 1
      /\ (resp.route = "track" /\ resp.status = 200)
            => Cardinality(ByPid(resp.pid)) = 1

\* banCount of an identity: that of its record, 0 while it has none.
BanCountOf(ps, pid) ==
    LET m == {p \in ps : p.productUserId = pid}
    IN IF m = {} THEN 0 ELSE First(m).banCount

\* C3: every successful POST /api/ban on an identity adds exactly one to its
\* banCount, and no track, list, unban or expiry step in between changes it;
\* so after N successful bans banCount is its value before plus N.
C3_BanCountPlusOnePerBan ==
    [][\A pid \in BanIds :
         /\ (\E reason \in ReasonInputs, dur \in DurationInputs :
                Ban(pid, reason, dur) \/ BanOr(pid, reason, dur))
               => BanCountOf(players', pid) = BanCountOf(players, pid) + 1
         /\ (draft # "part_002"
             /\ ~(\E reason \in ReasonInputs, dur \in DurationInputs :
                     Ban(pid, reason, dur) \/ BanOr(pid, reason, dur))
             /\ ~(\E id \in AdminIds : Delete(id)))
               => BanCountOf(players', pid) = BanCountOf(players, pid)]_vars

\* The identities the specification calls invalid: the empty string, the
\* literal string "undefined", any string shorter than 5 characters.
InvalidIdentity(pid) == pid = "" \/ pid = "undefined" \/ Len(pid) < 5

\* C4: POST /api/players/track answers 400 to every invalid identity, and
\* the store never holds a record under one.
C4_InvalidIdentityRejected ==
    /\ (resp.route = "track" /\ resp.pid # Absent /\ InvalidIdentity(resp.pid))
          => resp.status = 400
    /\ \A p \in players :
          p.productUserId # Absent => ~InvalidIdentity(p.productUserId)

\* C10: POST /api/ban leaves the record banned with the reason sent (or the
\* placeholder), permanent when durationMinutes is absent or <= 0, and
\* otherwise expiring at the time of the request plus durationMinutes
\* (durations are carried in half minutes); a re-ban replaces the reason and
\* the expiry the record had.
C10_BanDuration ==
    [][\A pid \in BanIds, reason \in ReasonInputs, dur \in DurationInputs :
         ((Ban(pid, reason, dur) \/ BanOr(pid, reason, dur))
          /\ {p \in players' : p.productUserId = pid} # {})
         => LET p == First({q \in players' : q.productUserId = pid})
            IN /\ p.isBanned
               /\ p.banReason = IF reason \in {Absent, ""} THEN "Admin Ban"
                                ELSE reason
               /\ IF dur = NULL \/ dur[1] <= 0
                  THEN p.banExpiresAt = NULL
                  ELSE /\ p.banExpiresAt # NULL
                       /\ 2 * p.banExpiresAt[1] = 2 * now + dur[1]]_vars

\* C5: POST /api/sanctions/create writes the local store only after the
\* authority has accepted the sanction: the step that begins the request and
\* every step that answers it with a failure leave the store as it is, and a
\* step of the request that changes the store belongs to a request whose
\* sanction POST succeeded.
C5_LocalWriteAfterAcceptance ==
    [][\A s \in Slots :
         /\ (req[s] = Idle /\ req'[s] # Idle /\ req'[s].op = "create")
               => players' = players
         /\ (req[s].op = "create" /\ req'[s] # req[s] /\ players' # players)
               => req[s].accepted
         /\ (resp'.route = "create" /\ ~resp'.success)
               => players' = players]_vars

\* A tracked player stays unbanned after a sanction the authority refused.
C5_RefusedLeavesUnbanned ==
    /\ resp.route = "create" /\ resp.status \in {400, 500}
    /\ resp.pid \in SanctionIds /\ ~MissingId(resp.pid)
    /\ ByPid(resp.pid) # {}
    /\ \A p \in ByPid(resp.pid) : ~p.isBanned

\* C6: POST /api/sanctions/create answers success only for a request whose
\* sanction the authority accepted; when the token request or the sanction
\* POST fails, the answer is a failure: success false with status 400 or
\* 500.
C6_SuccessOnlyIfAccepted ==
    [][/\ (resp'.route = "create" /\ resp'.success) => resp'.accepted
       /\ \A s \in Slots :
            (req[s].op = "create" /\ (CreatePost(s, FALSE) \/ TokenRefused(s)))
            => /\ resp'.route = "create"
               /\ ~resp'.success
               /\ resp'.status \in {400, 500}]_vars

\* The catch block has answered a create request.
C6_FailureAnswered ==
    /\ resp.route = "create" /\ ~resp.success
    /\ resp.pid \in SanctionIds /\ ~MissingId(resp.pid)

\* The record of p after a step, if it still has one.
Swept(before, after) ==
    \A p \in before :
       (p.isBanned /\ PastExpiry(p, now))
       => \A q \in after : q.id = p.id => (~q.isBanned /\ q.banReason = "")

\* C7 as stated: in part_006, once the expiry time of a ban has passed, a hit
\* of any endpoint (track, list, ban, unban or delete, for any identity)
\* leaves the record with isBanned false and banReason "".
C7_AnyEndpointLifts ==
    [][draft = "part_006" =>
         /\ ((\E s \in Slots, pid \in TrackIds \ {Absent, ""} :
                 TrackExpire(s, pid))
             \/ (\E s \in Slots : ListExpire(s))
             \/ (\E pid \in AdminIds : Unban(pid) \/ Delete(pid)))
               => Swept(players, players')
         /\ \A pid \in BanIds :
              (\E reason \in ReasonInputs, dur \in DurationInputs :
                  Ban(pid, reason, dur))
              => Swept({p \in players : p.productUserId # pid},
                       players')]_vars

\* C7: in part_006 a ban for a whole number of minutes with a reason leaves
\* the record banned with that reason until the expiry time, and GET
\* /api/players shows the records as they are stored; the expiry sweep of a
\* POST /api/players/track with a non-empty identity or of a GET
\* /api/players clears every ban whose expiry time has passed (isBanned
\* false, banReason "") and touches no other record.
C7_TrackAndListLift ==
    [][draft = "part_006" =>
         /\ \A reason \in {"cheating"} :
              Ban("abc123", reason, <<2>>)
              => \E p \in players' :
                    /\ p.productUserId = "abc123"
                    /\ p.isBanned /\ p.banReason = reason
                    /\ p.banExpiresAt = <<now + 1>>
         /\ (resp'.route = "list" /\ resp'.status = 200)
               => resp'.players = players'
         /\ hit'.route \in {"track", "list"}
               => /\ Swept(players, players')
                  /\ \A p \in players :
                        ~(p.isBanned /\ PastExpiry(p, now)) => p \in players']_vars

\* The sweep of a track or list request has lifted a ban in part_006.
C7_SweepLifted ==
    /\ draft = "part_006"
    /\ hit.route \in {"track", "list"}
    /\ \E p \in players :
          /\ p.id \in hit.lifted
          /\ ~p.isBanned /\ p.banReason = "" /\ p.banCount > 0

\* C8: every record with isBanned false has banReason "" and banExpiresAt
\* null, whatever sequence of track, ban, unban, expiry sweep, delete and
\* restore produced it.
C8_CleanRecordHasNoBanData ==
    \A p \in players : ~p.isBanned => (p.banReason = "" /\ p.banExpiresAt = NULL)

\* A restore has written records, one of them formerly banned and clean now.
C8_RestoredClean ==
    /\ resp.route = "restore" /\ resp.status = 200 /\ resp.count > 0
    /\ \E p \in players : ~p.isBanned /\ p.banCount > 0

\* C9: every record with isBanned true has a non-empty banReason, the
\* caller's or the placeholder.
C9_BannedRecordHasReason ==
    \A p \in players : p.isBanned => p.banReason # ""

\* A ban without a reason carries the placeholder.
C9_PlaceholderReason ==
    \E p \in players :
       p.isBanned /\ p.banReason \in {"Admin Ban", "Banned by Admin"}

\* A POST /api/ban for pid is answered in this step.
BanStep(pid) ==
    \/ \E reason \in ReasonInputs, dur \in DurationInputs :
          Ban(pid, reason, dur) \/ BanOr(pid, reason, dur)
    \/ \E reason \in ReasonInputs : BanLocal(pid, reason)

\* C11: POST /api/ban on an identity without a record either rejects the
\* request with 404 and leaves the store as it is, or leaves a banned record
\* for that identity; it never answers success while the store holds no
\* banned record for it.
C11_BanUnknownIdentityPolicy ==
    [][\A pid \in BanIds :
         (BanStep(pid) /\ ByPid(pid) = {})
         => \/ resp'.status = 404 /\ players' = players
            \/ /\ resp'.status = 200
               /\ \E p \in players' : p.productUserId = pid /\ p.isBanned]_vars

\* C12: POST /api/unban on an identity whose record is already clean, or
\* that has no record, answers success, changes no field of any record and
\* creates no record.
C12_UnbanIdempotent ==
    [][\A pid \in AdminIds :
         ((Unban(pid) \/ UnbanLocal(pid))
          /\ (ByPid(pid) = {} \/ ~First(ByPid(pid)).isBanned))
         => /\ players' = players
            /\ resp' = UnbanOk(pid)]_vars

\* An unban has been answered for a player with a clean record: it lifted
\* nothing.
C12_UnbanOfClean ==
    /\ resp = UnbanOk("abc123")
    /\ hit = Hit("unban", {})
    /\ ByPid("abc123") # {}
    /\ \A p \in ByPid("abc123") : ~p.isBanned /\ p.banCount > 0

\* C13: an explicit unban of a banned player, permanent or timed, leaves the
\* record with isBanned false, banReason "" and banExpiresAt null; the
\* sanctions drafts, whose records carry the flag alone, leave isBanned false.
C13_UnbanClears ==
    [][/\ \A pid \in AdminIds :
            ((Unban(pid) \/ UnbanLocal(pid))
             /\ ByPid(pid) # {} /\ First(ByPid(pid)).isBanned)
            => \E p \in players' :
                  /\ p.id = First(ByPid(pid)).id /\ p.productUserId = pid
                  /\ ~p.isBanned /\ p.banReason = "" /\ p.banExpiresAt = NULL
       /\ \A s \in Slots :
            (RemoveSave(s) /\ ByPid(req[s].pid) # {})
            => \E p \in players' :
                  /\ p.id = First(ByPid(req[s].pid)).id
                  /\ p.productUserId = req[s].pid /\ ~p.isBanned]_vars

\* An unban has lifted a ban: the record it matched was banned and is clean.
C13_UnbanLifted ==
    /\ hit.route = "unban" /\ hit.lifted # {}
    /\ \E p \in players :
          /\ p.id \in hit.lifted
          /\ ~p.isBanned /\ p.banReason = "" /\ p.banExpiresAt = NULL
          /\ p.banCount > 0

\* C14: in the sanctions drafts every request that changes a record's local
\* ban flag has called the external authority: POST /api/sanctions/create
\* has had its sanction accepted, and POST /api/sanctions/remove has issued
\* the sanction DELETE, before the step that writes the record.
C14_LocalFlagOnlyWithAuthority ==
    [][\A s \in Slots :
         (req[s].op \in {"create", "remove"} /\ req'[s] # req[s]
          /\ players' # players)
         => IF req[s].op = "create" THEN req[s].accepted ELSE req[s].called]_vars

\* One step of the caching drafts as getAccessToken() sees it.
TokenCacheStep ==
    draft \in CachingDrafts =>
         /\ tokenCache.token # NULL
               => \E e \in ExpiresInInputs :
                     tokenCache.expiresAt = tokenCache.token[1] + e - 5
         /\ \A s \in Slots :
               (req[s] = Idle /\ req'[s] # Idle)
               => /\ req'[s].cached
                       <=> (tokenCache.token # NULL /\ now < tokenCache.expiresAt)
                  /\ req'[s].cached
                       => (req'[s].pc # "token" /\ tokenCache' = tokenCache)
                  /\ ~req'[s].cached => req'[s].pc = "token"
         /\ \A s \in Slots, e \in ExpiresInInputs :
               TokenGranted(s, e)
               => /\ ~req[s].cached
                  /\ tokenCache'.token = <<now>>
                  /\ tokenCache'.expiresAt = now + e - 5

\* C15: in the caching drafts getAccessToken() answers from the cache
\* exactly while a token is cached and the time is before the token's
\* acquisition time plus (expires_in - 300 s), then without a token request
\* and without touching the cache; otherwise it requests a token, and the
\* token answer is cached with that expiry.  A cached token is never served
\* at or after its expiresAt.
C15_TokenCachedUntilMargin == [][TokenCacheStep]_vars

\* A sanction request has been answered from the token cache.
C15_ServedFromCache ==
    /\ tokenCache.token # NULL /\ now < tokenCache.expiresAt
    /\ \E s \in Slots :
          req[s].op = "create" /\ req[s].cached /\ req[s].pc = "post"

\* C16: in the caching drafts at most one token request to the external
\* authority is in flight at any time.
C16_OneTokenRequest ==
    draft \in CachingDrafts =>
    Cardinality({s \in Slots : req[s].op \in {"create", "remove"}
                               /\ req[s].pc = "token"}) <= 1

\* C19: createSnapshot is a no-op on an empty player store: the pass that
\* reads no player ends there, saves nothing and leaves the stored snapshots
\* as they are; so no stored snapshot is empty.
C19_EmptyStoreNoSnapshot ==
    [][/\ \A s \in Slots :
            (\E customName \in NameInputs : SnapshotFind(s, customName)
             /\ players = {})
            => (backups' = backups /\ req' = req)
       /\ \A b \in backups' : b.totalPlayers > 0 /\ Len(b.data) > 0]_vars

\* POST /api/backups/create has been answered on an empty store without a
\* snapshot having been saved.
C19_AnsweredWithoutSnapshot ==
    /\ draft = "part_005"
    /\ resp = SnapshotOk(FALSE)
    /\ players = {} /\ backups = {}

\* C20: every stored snapshot has totalPlayers = the number of records of
\* its data, bannedCount = the number of those with isBanned true, and
\* cleanCount = totalPlayers - bannedCount; a stored snapshot never changes,
\* whatever happens to the player store afterwards.
C20_SnapshotAggregates ==
    [][/\ \A b \in backups' :
            /\ b.totalPlayers = Len(b.data)
            /\ b.bannedCount =
                  Cardinality({i \in DOMAIN b.data : b.data[i].isBanned})
            /\ b.cleanCount = b.totalPlayers - b.bannedCount
       /\ \A b \in backups : \A c \in backups' : c.id = b.id => c = b]_vars

\* A snapshot of one banned and one clean record is stored, and the ban has
\* been lifted in the player store since.
C20_CountsOutliveStore ==
    /\ \E b \in backups : b.bannedCount = 1 /\ b.cleanCount = 1
    /\ players # {}
    /\ \A p \in players : ~p.isBanned

\* The identities of a snapshot payload.
IdentitiesIn(data) ==
    {data[i].productUserId : i \in DOMAIN data} \ {Absent}

\* C17: a snapshot restored into an empty player store reproduces exactly
\* the identities the store held when the snapshot was taken, each record
\* with the isBanned, banReason, banExpiresAt and banCount it had.
C17_SnapshotRoundTrip ==
    (resp.route = "restore" /\ resp.status = 200)
    => \A b \in backups :
          b.id = resp.bid
          => /\ {p.productUserId : p \in players} = IdentitiesIn(b.data)
             /\ \A i \in DOMAIN b.data :
                   b.data[i].productUserId # Absent
                   => \E p \in players : Projected(p) = b.data[i]

\* The snapshot with the oldest timestamp.
Oldest(bs) == CHOOSE b \in bs : \A c \in bs : b.timestamp <= c.timestamp

\* C18: under the count-based retention with limit 30, a pass adds one
\* snapshot; with 30 stored before it, its delete removes exactly one
\* snapshot, the one with the oldest timestamp, and leaves 30; after any
\* completed pass at most 30 snapshots are stored.
C18_KeepsNewestThirty ==
    [][\A s \in Slots :
         /\ CronSave(s)
               => /\ backups \subseteq backups'
                  /\ Cardinality(backups') = Cardinality(backups) + 1
         /\ (CronDelete(s) /\ Cardinality(backups) = 31)
               => /\ backups' = backups \ {Oldest(backups)}
                  /\ Cardinality(backups') = 30
         /\ ((CronList(s) /\ req'[s] = Idle) \/ CronDelete(s))
               => /\ Cardinality(backups') <= 30
                  /\ Cardinality(backups') < 30 => backups' = backups]_vars

\* C21: a stored snapshot is immutable: no step (track, ban, unban, delete,
\* restore, a further createSnapshot) changes its payload, timestamp, name or
\* aggregates; it stays as it is or disappears as a whole, and it disappears
\* only by the pruning of a pass or by DELETE /api/backups/:id.
C21_SnapshotImmutable ==
    [][\A b \in backups :
         \/ b \in backups'
         \/ /\ \A c \in backups' : c.id # b.id
            /\ \/ \E s \in Slots : SnapshotPrune(s)
               \/ \E bid \in 1 .. (MaxBackups + 1) : BackupDelete(bid)]_vars

\* A named snapshot still shows the ban that has since been lifted in the
\* player store, beside a later snapshot that was taken without the ban.
C21_SnapshotOutlivesLaterSnapshot ==
    /\ \E b, c \in backups :
          /\ b.timestamp < c.timestamp
          /\ b.name = "before wipe"
          /\ \E i \in DOMAIN b.data : b.data[i].isBanned
          /\ \A i \in DOMAIN c.data : ~c.data[i].isBanned
    /\ players # {}
    /\ \A p \in players : ~p.isBanned

\* The payload entries restore can write: those with an identity.
Usable(data) ==
    Cardinality({i \in DOMAIN data : ~Falsy(IdentityOf(data[i]))})

\* C22: restore skips a payload entry without identity, writing nothing and
\* going on with the next entry; it upserts every entry that has one; and
\* the count it answers is the number of entries of the snapshot's payload
\* that have an identity.  Stated step by step: the handler starts with the
\* payload still to do and a count of zero, every turn of the loop keeps
\* count plus the usable entries still to do, no other step touches the
\* handler, and the count is answered when nothing is left to do.
C22_RestoreCountsUsable ==
    [][\A s \in Slots :
         /\ \A bid \in 1 .. MaxBackups :
               (Restore(s, bid) /\ req'[s].op = "restore")
               => \A b \in backups :
                     b.id = bid
                     => /\ req'[s].todo = b.data
                        /\ req'[s].count = 0
         /\ (RestoreStep(s) /\ req[s].todo # << >>)
               => LET p == Head(req[s].todo)
                  IN /\ req'[s].op = "restore"
                     /\ req'[s].todo = Tail(req[s].todo)
                     /\ req'[s].count + Usable(req'[s].todo)
                           = req[s].count + Usable(req[s].todo)
                     /\ Falsy(IdentityOf(p)) => players' = players
                     /\ ~Falsy(IdentityOf(p))
                           => \E q \in players' : Projected(q) = p
         /\ (req[s].op = "restore" /\ req'[s] # req[s]) => RestoreStep(s)
         /\ (RestoreStep(s) /\ req[s].todo = << >>)
               => /\ resp'.status = 200
                  /\ resp'.count = req[s].count
                  /\ req'[s].op = "idle"]_vars

\* A restore of a snapshot of two entries has answered a count of one: the
\* entry without identity was skipped, the other was written.
C22_SkippedOneRestoredOne ==
    /\ resp.route = "restore" /\ resp.status = 200 /\ resp.count = 1
    /\ \E b \in backups :
          /\ b.id = resp.bid
          /\ Len(b.data) = 2
          /\ \E i \in DOMAIN b.data :
                /\ b.data[i].productUserId # Absent
                /\ \E q \in players : Projected(q) = b.data[i]

\* C23: however often the process is started and startBackupSchedule is
\* called, at most one snapshot task is scheduled, and an interval makes at
\* most one callback due.
C23_OneSchedule == cron.tasks <= 1 /\ cron.due <= 1

\* server.js has been restarted, has called startBackupSchedule a second
\* time, and the hour that followed has made one callback due.
C23_RearmedAfterRestart ==
    /\ draft = "server.js"
    /\ cron.starts = 2
    /\ cron.tasks = 1
    /\ cron.due = 1

\* C24: at most one snapshot pass is in progress at any time.
C24_OnePassAtATime ==
    Cardinality({s \in Slots : req[s].op = "snapshot"}) <= 1

\* C25: a failed backup run is logged and leaves the schedule as it is: the
\* process lives on and every scheduled task stays scheduled, so that the
\* next interval makes it due again.
C25_FailureKeepsSchedule ==
    [][cron'.errors > cron.errors
       => /\ cron'.alive
          /\ cron'.tasks = cron.tasks]_vars

\* C26: a createSnapshot that failed is not answered with success by
\* POST /api/backups/create.
C26_FailureNotSuccess ==
    [][cron'.errors > cron.errors
       => ~(resp'.route = "snapshot" /\ resp'.status = 200)]_vars

\* The header carries the configured secret.
Authorized(header) == AdminPassword # Absent /\ header = AdminPassword

\* C27: an admin request whose x-admin-auth header is not the configured
\* secret, an absent header and an unset ADMIN_PASSWORD included, is answered
\* 403 and leaves players, snapshots, sanctions and handlers as they are.
C27_MismatchRefused ==
    [][\A h \in HeaderInputs :
         (~Authorized(h) /\ AdminRequest(h))
         => /\ resp'.status = 403
            /\ players' = players
            /\ backups' = backups
            /\ sanctions' = sanctions
            /\ req' = req]_vars

\* C28: when POST /api/players/track answers 200, the isBanned it answers
\* is the isBanned stored for that identity at that moment, also when a ban
\* or unban of the identity was served while the track call was suspended.
C28_TrackAnswersStoredFlag ==
    (resp.route = "track" /\ resp.status = 200)
    => \E p \in ByPid(resp.pid) : p.isBanned = resp.isBanned

\* C29: the banCount of a stored record of an identity never decreases,
\* whatever is served: track, ban, unban, snapshot or restore.
C29_BanCountNeverDecreases ==
    [][\A p \in players : \A q \in players' :
         (q.id = p.id /\ q.productUserId = p.productUserId)
         => q.banCount >= p.banCount]_vars

\* C30: the firstSeen of a stored record of an identity is the time of its
\* creation and no later step changes it: no track, ban, unban or restore.
C30_FirstSeenKept ==
    [][\A p \in players : \A q \in players' :
         (q.id = p.id /\ q.productUserId = p.productUserId)
         => q.firstSeen = p.firstSeen]_vars

\* C31: POST /api/delete answers success whether or not the identity has a
\* record; on an identity without record it changes nothing; it removes only
\* records of the identity sent; and it leaves no record of that identity,
\* so that a second delete leaves the store as the first did.
C31_DeleteIdempotent ==
    [][\A pid \in AdminIds :
         Delete(pid)
         => /\ resp' = AdminOk
            /\ ByPid(pid) = {} => players' = players
            /\ {p.id : p \in players'} \subseteq {p.id : p \in players}
            /\ \A p \in players :
                  \/ \E q \in players' : [q EXCEPT !.at = p.at] = p
                  \/ p.productUserId = pid /\ p.id \notin {q.id : q \in players'}
            /\ \A p \in players' : p.productUserId # pid]_vars

\* C32: the sweep of checkExpirations unbans exactly the records that are
\* banned with a banExpiresAt that is set and not later than the current
\* time, changing only their isBanned, banReason and banExpiresAt, and it
\* leaves every other record as it is; a permanent ban, and a timed ban
\* whose banExpiresAt has not come, is lifted by an explicit unban only.
C32_SweepLiftsExactlyExpired ==
    [][/\ ((\E s \in Slots, pid \in ExpiryTrackIds : TrackExpire(s, pid))
           \/ (\E s \in Slots : ListExpire(s)))
          => /\ {q.id : q \in players'} = {p.id : p \in players}
             /\ \A p \in players : \E q \in players' :
                   /\ q.id = p.id
                   /\ IF /\ p.isBanned /\ p.banExpiresAt # NULL
                         /\ p.banExpiresAt[1] <= now
                      THEN q = [p EXCEPT !.isBanned = FALSE, !.banReason = "",
                                         !.banExpiresAt = NULL]
                      ELSE q = p
       /\ \A p \in players : \A q \in players' :
            (/\ q.id = p.id /\ p.isBanned /\ ~q.isBanned
             /\ (p.banExpiresAt = NULL \/ p.banExpiresAt[1] > now))
            => \E pid \in ExpiryBanIds : Unban(pid)]_vars

\* A sweep has lifted the expired ban of one player and left the permanent
\* ban of another in place.
C32_ExpiredLiftedPermanentKept ==
    /\ hit.route \in {"track", "list"}
    /\ \E p \in players :
          /\ p.id \in hit.lifted
          /\ ~p.isBanned /\ p.banReason = "" /\ p.banExpiresAt = NULL
          /\ p.banCount > 0
    /\ \E q \in players : q.isBanned /\ q.banExpiresAt = NULL

\* A step of POST /api/players/track, in any of the ban drafts.
TrackStep ==
    \/ \E s \in Slots, pid \in TrackIds : TrackExpire(s, pid) \/ TrackOr(s, pid)
    \/ \E s \in Slots :
          TrackUpsert(s) \/ TrackFind(s) \/ TrackSave(s) \/ TrackBackfill(s)
    \/ \E pid \in TrackIds : TrackOnce(pid)

\* C33: no step of POST /api/players/track removes a record or changes the
\* identity a record has, and none changes isBanned, banReason, banExpiresAt
\* or banCount of a record, unless it is the expiry sweep clearing a ban
\* whose banExpiresAt has passed; so the ban or unban served while a track
\* call of the same identity is suspended is still stored when it answers.
C33_TrackKeepsBanFields ==
    [][TrackStep =>
         \A p \in players : \E q \in players' :
            /\ q.id = p.id
            /\ p.productUserId # Absent => q.productUserId = p.productUserId
            /\ q.banCount = p.banCount
            /\ \/ /\ q.isBanned = p.isBanned
                  /\ q.banReason = p.banReason
                  /\ q.banExpiresAt = p.banExpiresAt
               \/ /\ hit'.route = "track"
                  /\ p.isBanned /\ PastExpiry(p, now)
                  /\ ~q.isBanned /\ q.banReason = ""
                  /\ q.banExpiresAt = NULL]_vars

\* A track call of part_004 that read the record before a ban has saved and
\* answered, and the ban served in between is stored.
C33_BanOutlivesTrackSave ==
    /\ draft = "part_004"
    /\ resp = TrackResp(200, "abc123", FALSE)
    /\ \E p \in ByPid("abc123") : p.isBanned /\ p.banCount = 1

\* C34: when POST /api/sanctions/create answers success for an identity,
\* the local store holds a record of that identity with isBanned true,
\* whether or not the identity had been tracked before.
C34_SuccessLeavesBannedRecord ==
    (resp.route = "create" /\ resp.success)
    => \E p \in ByPid(resp.pid) : p.isBanned

\* The drafts whose create route normalises the identity.
NormalisingDrafts == {"part_007", "server.js_hex"}

\* C35: the normalisation of POST /api/sanctions/create (trim, or the
\* hexadecimal digits alone, 32 of them) never splits a player: when the
\* identity as it was sent has a record, the local write of a create marks
\* that record banned and adds no record; and the subjectId of every
\* sanction sent to the authority passes the identity check and is in
\* normal form.
C35_NormalisationKeepsOneRecord ==
    [][(draft \in NormalisingDrafts) =>
         /\ \A s \in Slots :
              (CreateSave(s) /\ ByPid(req[s].raw) # {})
              => /\ \E p \in players' :
                       p.productUserId = req[s].raw /\ p.isBanned
                 /\ {p.id : p \in players'} = {p.id : p \in players}
         /\ \A s \in Slots :
              (req'[s].op = "create")
              => /\ ~MissingId(req'[s].pid)
                 /\ CleanId(req'[s].pid) = req'[s].pid
         /\ \A pid \in sanctions' :
              ~MissingId(pid) /\ CleanId(pid) = pid]_vars

\* C36: a token request that fails leaves tokenCache as it is, token and
\* expiresAt; the create or remove request that was waiting for the token
\* ends there with a failure answer: it has sent no sanction call to the
\* authority, sends none, and changes no record.
C36_TokenFailureChangesNothing ==
    [][\A s \in Slots :
         TokenRefused(s)
         => /\ tokenCache' = tokenCache
            /\ players' = players
            /\ sanctions' = sanctions
            /\ IF req[s].op = "create" THEN ~req[s].accepted
               ELSE ~req[s].called
            /\ req'[s] = Idle
            /\ \A r \in Slots \ {s} : req'[r] = req[r]
            /\ resp'.route = req[s].op
            /\ ~resp'.success]_vars

\* A create request of a caching draft was answered with a failure although
\* no token has ever been granted: the token request failed, the tracked
\* player is not banned and the authority holds no sanction.
C36_RefusedBeforeAnyToken ==
    /\ draft \in CachingDrafts
    /\ resp.route = "create" /\ ~resp.success /\ resp.status = 500
    /\ tokenCache = [token |-> NULL, expiresAt |-> 0]
    /\ sanctions = {}
    /\ ByPid(resp.pid) # {}
    /\ \A p \in players : ~p.isBanned

\* C37: a track of an identity that has a legacy record only (matched by
\* playerId, without productUserId) inserts no record and goes on to give
\* that record the productUserId; and when a track call answers success,
\* exactly one record matches its identity by productUserId or playerId,
\* also when another track call of the identity ran between its upsert and
\* its save.
C37_LegacyTrackedAsOne ==
    [][/\ \A s \in Slots, pid \in LegacyIds :
            (TrackOr(s, pid) /\ ByPid(pid) = {} /\ ByOr(pid) # {})
            => /\ {p.id : p \in players'} = {p.id : p \in players}
               /\ req'[s].op = "track" /\ req'[s].pc = "backfill"
               /\ req'[s].doc \in {p.id : p \in ByOr(pid)}
       /\ \A s \in Slots :
            (TrackBackfill(s) /\ resp'.status = 200)
            => /\ {p.id : p \in players'} = {p.id : p \in players}
               /\ \E p \in players' :
                     p.id = req[s].doc /\ p.productUserId = req[s].pid
       /\ (resp'.route = "track" /\ resp'.status = 200)
            => Cardinality({p \in players' :
                              \/ p.productUserId = resp'.pid
                              \/ p.playerId = resp'.pid}) = 1]_vars

\* The record the routes serve for an identity in a collection: the first
\* one their filter matches.
RecordOf(ps, pid) ==
    First({q \in ps : q.productUserId = pid \/ q.playerId = pid})

\* The record of the identity of payload entry p in ps has the ban fields
\* of p.
AsInPayload(ps, p) ==
    LET r == RecordOf(ps, IdentityOf(p))
    IN /\ r.isBanned = p.isBanned
       /\ r.banReason = p.banReason
       /\ r.banExpiresAt = p.banExpiresAt
       /\ r.banCount = p.banCount

\* C38: a restore changes only the records whose identity is in the
\* payload: no turn of its loop deletes a record or changes a record of
\* another identity than its entry's (the turn for an entry without
\* identity changes nothing), and when the restore answers, with no other
\* request served meanwhile, the record of every identity of the payload
\* has the isBanned, banReason, banExpiresAt and banCount of its entry.
C38_RestoreTouchesPayloadOnly ==
    [][\A s \in Slots :
         RestoreStep(s)
         => IF req[s].todo = << >>
            THEN /\ players' = players
                 /\ \A b \in backups :
                       b.id = req[s].bid
                       => \A i \in DOMAIN b.data :
                             ~Falsy(IdentityOf(b.data[i]))
                             => AsInPayload(players', b.data[i])
            ELSE IF Falsy(IdentityOf(Head(req[s].todo)))
            THEN players' = players
            ELSE LET pid == IdentityOf(Head(req[s].todo))
                 IN /\ {q.id : q \in players} \subseteq {q.id : q \in players'}
                    /\ \A q \in players :
                          (q.productUserId # pid /\ q.playerId # pid)
                          => q \in players'
                    /\ AsInPayload(players', Head(req[s].todo))]_vars

\* The snapshots of bs no other is newer than.
Newest(bs) == {b \in bs : \A c \in bs : c.timestamp <= b.timestamp}

\* C39: the pruning that ends a successful createSnapshot never deletes the
\* newest snapshot, which stays stored, under the age-based policy
\* (SnapshotPrune) and under the count-based one (the end of CronList, and
\* CronDelete); the age-based pruning leaves no snapshot older than the
\* retention window of 24 hours.
C39_PruningKeepsNewest ==
    [][\A s \in Slots :
         /\ SnapshotPrune(s)
            => /\ backups' # {}
               /\ Newest(backups) \subseteq backups'
               /\ \A b \in backups' : now - b.timestamp <= RetentionMinutes
         /\ ((CronList(s) /\ req'[s] = Idle) \/ CronDelete(s))
            => /\ backups' # {}
               /\ Newest(backups) \subseteq backups']_vars

====
